---- MODULE Spec2Model ----
(***************************************************************************)
(* Model of the AT91 MCI mmc/sd host bridge driver (at91_mci.c).           *)
(*                                                                         *)
(* The softc fields, the controller registers the driver writes and the   *)
(* request handed in by the mmc layer are the state; at91_mci_request,     *)
(* at91_mci_intr, at91_mci_write_ivar and at91_mci_update_ios are the      *)
(* actions.  Each action models the whole handler, the calls it makes      *)
(* (at91_mci_start, at91_mci_start_cmd, at91_mci_read_done,                *)
(* at91_mci_xmit_done) included.                                           *)
(***************************************************************************)
EXTENDS Integers, Sequences, FiniteSets, TLC

(***************************************************************************)
(* Bounds of the model.                                                    *)
(***************************************************************************)
\* number of requests the mmc layer gets accepted in one behaviour
MaxReq == 2
\* number of status bits the controller raises at the same time
MaxStatusBits == 2
\* largest divider slot around which requested clocks are drawn
MaxDivSlot == 3
\* update_ios calls in a row without a write of the CLOCK property between
MaxUpdates == 2
\* longest buffer, in bytes, written through the bounce buffer
MaxBufLen == 13
\* threads of the mmc layer that call acquire_host / release_host
MaxCallers == 2
\* msleep calls of one acquire_host call that are counted
MaxNaps == 2

(***************************************************************************)
(* Program constants.                                                      *)
(***************************************************************************)
MMC_SEND_OP_COND == 1
MMC_STOP_TRANSMISSION == 12
ACMD_SD_SEND_OP_COND == 41
\* the nominal high-speed rate of the overclock test and the f_max cap
NominalClock == 25000000
\* the master clock above which the overclock policy applies
OverclockMck == 50000000
\* host.f_min
F_MIN == 375000
\* the short-write erratum pads to this many bytes
ErratumLen == 12
BBSZ == 512
EBUSY == 16
\* enum mmc_bus_mode
opendrain == 1

CMD_STARTED == "CMD_STARTED"
STOP_STARTED == "STOP_STARTED"

\* MCI_SR_ERROR: the error bits of the status register
ErrorBits ==
  {"UNRE", "OVRE", "DTOE", "DCRCE", "RTOE", "RENDE", "RCRCE", "RDIRE", "RINDE"}
\* the status bits the handler looks at in its non-error branch
EventBits ==
  {"CMDRDY", "RXRDY", "TXRDY", "BLKE", "DTIP", "NOTBUSY",
   "ENDRX", "ENDTX", "RXBUFF", "TXBUFE"}
\* 0xffffffff written to MCI_IDR
AllBits == ErrorBits \cup EventBits

(***************************************************************************)
(* The requests of the mmc layer.                                          *)
(***************************************************************************)
RspNone == {}
RspShort == {"MMC_RSP_PRESENT"}
RspLong == {"MMC_RSP_PRESENT", "MMC_RSP_136"}

NoResp == <<0, 0, 0, 0>>

\* cmd->data == NULL
NoData ==
  [present |-> FALSE, flags |-> {}, len |-> 0, xfer_len |-> 0, data |-> <<>>]

\* a buffer of n nonzero bytes, each position with a value of its own
Pattern(n) == [i \in 1..n |-> ((i - 1) % 255) + 1]

\* struct mmc_data as handed in; xfer_len holds whatever the caller left;
\* data holds the bytes of data->data that are tracked: the caller's n bytes
\* of a buffer to send, and for a buffer to receive into the bytes the card
\* has delivered, none before it has
MkData(fl, n) ==
  [present |-> TRUE, flags |-> fl, len |-> n, xfer_len |-> n,
   data |-> IF "MMC_DATA_READ" \in fl THEN <<>> ELSE Pattern(n)]

\* the data of the submitted commands: none, a block read, a short write,
\* and data with neither direction flag
Datas ==
  {NoData, MkData({"MMC_DATA_READ"}, 512), MkData({"MMC_DATA_WRITE"}, 4),
   MkData({}, 4)}

\* req->stop == NULL, and the target of a NULL sc->curcmd
NoCmd ==
  [present |-> FALSE, opcode |-> 0, arg |-> 0, flags |-> {}, data |-> NoData,
   error |-> "MMC_ERR_NONE", resp |-> NoResp, mrq |-> 0]

MkCmd(op, fl, d) ==
  [present |-> TRUE, opcode |-> op, arg |-> 0, flags |-> fl, data |-> d,
   error |-> "MMC_ERR_NONE", resp |-> NoResp, mrq |-> 0]

Opcodes == {MMC_SEND_OP_COND, ACMD_SD_SEND_OP_COND, 17}

StopCmds ==
  {NoCmd} \cup
  {MkCmd(MMC_STOP_TRANSMISSION, RspShort, d) :
      d \in {NoData, MkData({"MMC_DATA_READ"}, 512)}}

\* the requests submitted: every opcode with every data and every stop
\* command under a short response, and the other response types on
\* commands without data
Requests ==
  [cmd : {MkCmd(op, RspShort, d) : op \in Opcodes, d \in Datas},
   stop : StopCmds]
  \cup
  [cmd : {MkCmd(op, fl, NoData) : op \in Opcodes, fl \in {RspNone, RspLong}},
   stop : {NoCmd}]

NoRequest == [cmd |-> NoCmd, stop |-> NoCmd]

\* the words the controller presents in MCI_RSPR
RspRegs == {<<1, 2, 3, 4>>}

(***************************************************************************)
(* The state.                                                              *)
(***************************************************************************)
VARIABLES
  req,          \* sc->req: id of the outstanding request, 0 when NULL
  curcmd,       \* sc->curcmd: <<request id, "cmd" | "stop">>, NullCmd when NULL
  flags,        \* sc->flags: subset of {CMD_STARTED, STOP_STARTED}
  mapped,       \* sc->mapped
  sc_cap,       \* sc->sc_cap
  has_4wire,    \* sc->has_4wire
  use_30mhz,    \* sc->use_30mhz
  host,         \* sc->host (struct mmc_host, ios included)
  imr,          \* MCI_IMR: the enabled interrupt sources
  regs,         \* the other controller and PDC registers, as last written
  rq,           \* the request object the mmc layer handed in last
  rev2xx,       \* at91_mci_is_mci1rev2xx() of the board
  master_clock, \* at91_master_clock
  panic,        \* the handler dereferenced a NULL sc->curcmd
  log,          \* what the last operation did, in program order
  last,         \* the last operation and its inputs
  nsub,         \* requests accepted so far
  doneCount,    \* per request id: invocations of req->done
  hist,         \* per-request bookkeeping of the outstanding/last request
  bounce,       \* sc->bounce_buffer up to the last byte ever written; the
                \* bytes beyond are zero, as the softc was allocated
  wsrc,         \* the caller's bytes of the last write staged
  bus_busy,     \* sc->bus_busy
  callers,      \* per calling thread: where it is in acquire_host /
                \* release_host, the msleep calls of its acquire_host call,
                \* the value its last call returned
  upd           \* the at91_mci_update_ios call that runs register access by
                \* register access: where it is, its clkdiv, the bus width
                \* test it made and the register value it has read

vars ==
  <<req, curcmd, flags, mapped, sc_cap, has_4wire, use_30mhz, host, imr, regs,
    rq, rev2xx, master_clock, panic, log, last, nsub, doneCount, hist,
    bounce, wsrc, bus_busy, callers, upd>>

NullCmd == <<0, "NULL">>

\* The state as one record, for the operators that model the C functions.
St ==
  [req |-> req, curcmd |-> curcmd, flags |-> flags, mapped |-> mapped,
   sc_cap |-> sc_cap, host |-> host, imr |-> imr, regs |-> regs, rq |-> rq,
   rev2xx |-> rev2xx, panic |-> panic, log |-> log, doneCount |-> doneCount,
   hist |-> hist, bounce |-> bounce, wsrc |-> wsrc, bus_busy |-> bus_busy,
   callers |-> callers, upd |-> upd]

\* The variables take the fields of record t.
Becomes(t) ==
  /\ req' = t.req
  /\ curcmd' = t.curcmd
  /\ flags' = t.flags
  /\ mapped' = t.mapped
  /\ sc_cap' = t.sc_cap
  /\ host' = t.host
  /\ imr' = t.imr
  /\ regs' = t.regs
  /\ rq' = t.rq
  /\ rev2xx' = t.rev2xx
  /\ panic' = t.panic
  /\ log' = t.log
  /\ doneCount' = t.doneCount
  /\ hist' = t.hist
  /\ bounce' = t.bounce
  /\ wsrc' = t.wsrc
  /\ bus_busy' = t.bus_busy
  /\ callers' = t.callers
  /\ upd' = t.upd

\* the last step the handler marked done: the command, the status bits
\* handled during the step, its DMA loads, and what ended it
NoStep ==
  [which |-> "NULL", events |-> <<>>, loads |-> 0, load |-> <<>>,
   end |-> "none"]

\* cmdStarts, stopStarts: calls of at91_mci_start_cmd on req->cmd, req->stop;
\* stepsDone: steps the handler marked done; syncFail: the command whose
\* bus_dmamap_load failed; events, loads, load: status bits handled, calls
\* of bus_dmamap_load and the <<buffer, length, word count>> armed during
\* the current step; donePath: how the completion callback was reached;
\* filled: the card has delivered the data of the current read command
NoHist ==
  [cmdStarts |-> 0, stopStarts |-> 0, stepsDone |-> 0, syncFail |-> "none",
   loads |-> 0, load |-> <<>>, events |-> <<>>, step |-> NoStep,
   donePath |-> "none", filled |-> FALSE]

\* MCI_CMDR after reset, and the value at91_mci_start_cmd composes
NoCmdr ==
  [opcode |-> 0, rsptyp |-> "NO", maxlat |-> FALSE, trcmd |-> {},
   trdir |-> FALSE, trtyp |-> {}, opdcmd |-> FALSE]

\* at91_mci_init: MCI_MR = PDCMODE | 0x34a (PWSDIV = 3, CLKDIV = 74) and the
\* proof bits on an MCI1 rev 2xx controller
InitMr(r2) ==
  [pdcmode |-> TRUE, pwsdiv |-> 3, clkdiv |-> 74, blklen |-> 0,
   rdproof |-> r2, wrproof |-> r2]

InitRegs(r2) ==
  [MCI_CR |-> {"MCIEN"}, MCI_MR |-> InitMr(r2), MCI_SDCR |-> {},
   MCI_DTOR |-> "DTOMUL_1M|1", MCI_ARGR |-> 0, MCI_CMDR |-> NoCmdr,
   PDC_RPR |-> "0", PDC_RCR |-> 0, PDC_RNPR |-> "0", PDC_RNCR |-> 0,
   PDC_TPR |-> "0", PDC_TCR |-> 0, PDC_TNPR |-> "0", PDC_TNCR |-> 0,
   rxten |-> FALSE, txten |-> FALSE]

(***************************************************************************)
(* Register interface.                                                     *)
(***************************************************************************)
Ev(s, e) == [s EXCEPT !.log = Append(@, e)]

\* WR4: MCI_IER / MCI_IDR set and clear bits of MCI_IMR, PDC_PTCR switches the
\* two DMA channels, every other register keeps the value written.
WR4(s, reg, val) ==
  LET t == Ev(s, <<"WR4", reg, val>>) IN
  CASE reg = "MCI_IER" -> [t EXCEPT !.imr = @ \cup val]
    [] reg = "MCI_IDR" -> [t EXCEPT !.imr = @ \ val]
    [] reg = "PDC_PTCR" ->
         [t EXCEPT !.regs.rxten =
                      IF "RXTDIS" \in val THEN FALSE
                      ELSE IF "RXTEN" \in val THEN TRUE ELSE @,
                   !.regs.txten =
                      IF "TXTDIS" \in val THEN FALSE
                      ELSE IF "TXTEN" \in val THEN TRUE ELSE @]
    [] OTHER -> [t EXCEPT !.regs[reg] = val]

\* mutant of at91_mci_pdc_disable: the channels are switched off, the
\* pointer and count registers keep their values
at91_mci_pdc_disable_keepregs(s) ==
  WR4(s, "PDC_PTCR", {"TXTDIS", "RXTDIS"})

at91_mci_pdc_disable(s) ==
  LET s1 == WR4(s, "PDC_PTCR", {"TXTDIS", "RXTDIS"})
      s2 == WR4(s1, "PDC_RPR", "0")
      s3 == WR4(s2, "PDC_RCR", 0)
      s4 == WR4(s3, "PDC_RNPR", "0")
      s5 == WR4(s4, "PDC_RNCR", 0)
      s6 == WR4(s5, "PDC_TPR", "0")
      s7 == WR4(s6, "PDC_TCR", 0)
      s8 == WR4(s7, "PDC_TNPR", "0")
  IN  WR4(s8, "PDC_TNCR", 0)

(***************************************************************************)
(* Command sequencer.                                                      *)
(***************************************************************************)
\* the command a sc->curcmd / req->cmd / req->stop pointer refers to
CmdAt(s, which) == IF which = "stop" THEN s.rq.stop ELSE s.rq.cmd

SetCmd(s, which, c) ==
  IF which = "stop" THEN [s EXCEPT !.rq.stop = c] ELSE [s EXCEPT !.rq.cmd = c]

\* req->done(req): the completion callback of request id, reached on path
done(s, id, path) ==
  LET t == Ev(s, <<"done", id>>) IN
  [t EXCEPT !.doneCount[id] = @ + 1, !.hist.donePath = path]

\* the value of cmdr composed at the top of at91_mci_start_cmd
Cmdr(cmd, bus_mode) ==
  LET d == cmd.data
      rd == d.present /\ "MMC_DATA_READ" \in d.flags
      st == d.present /\ d.flags \cap {"MMC_DATA_READ", "MMC_DATA_WRITE"} # {}
  IN
  [opcode |-> cmd.opcode,
   rsptyp |-> IF cmd.flags = RspNone THEN "NO"
              ELSE IF "MMC_RSP_136" \in cmd.flags THEN "136" ELSE "48",
   maxlat |-> cmd.flags # RspNone,
   trcmd |-> (IF cmd.opcode = MMC_STOP_TRANSMISSION THEN {"STOP"} ELSE {})
             \cup (IF st THEN {"START"} ELSE {}),
   trdir |-> rd,
   trtyp |-> (IF d.present /\ "MMC_DATA_STREAM" \in d.flags
                THEN {"STREAM"} ELSE {})
             \cup (IF d.present /\ "MMC_DATA_MULTI" \in d.flags
                     THEN {"MULTIPLE"} ELSE {}),
   opdcmd |-> bus_mode = opendrain]

\* bswap32 on the four bytes of a word
bswap32(w) == <<w[4], w[3], w[2], w[1]>>

\* the first nwords 32-bit words of buf byte-swapped in place, the bytes
\* beyond them untouched
SwapWords(buf, nwords) ==
  [i \in 1..Len(buf) |->
     IF i <= 4 * nwords
     THEN LET k == (i - 1) \div 4
          IN  bswap32(SubSeq(buf, 4 * k + 1, 4 * k + 4))[((i - 1) % 4) + 1]
     ELSE buf[i]]

\* byte i of the bounce buffer bb
BounceByte(bb, i) == IF i <= Len(bb) THEN bb[i] ELSE 0

Max(a, b) == IF a >= b THEN a ELSE b

\* memset(dst, 0, 12) on the bounce buffer
ZeroErratum(bb) ==
  [i \in 1..Max(Len(bb), ErratumLen) |->
     IF i <= ErratumLen THEN 0 ELSE bb[i]]

\* the first m bytes of the bounce buffer bb overwritten with those of b
Overwrite(bb, b, m) ==
  [i \in 1..Max(Len(bb), m) |-> IF i <= m THEN b[i] ELSE bb[i]]

\* the bounce buffer after the write path of at91_mci_start_cmd has staged
\* the n bytes of src: cleared to 12 bytes under the erratum, then len/4
\* swapped words or a plain copy of n bytes
StageWrite(bb, src, n, r2, swap) ==
  LET b1 == IF r2 /\ n < ErratumLen THEN ZeroErratum(bb) ELSE bb
  IN  IF swap
      THEN Overwrite(b1, SwapWords(src, n \div 4), 4 * (n \div 4))
      ELSE Overwrite(b1, src, n)

\* mutant of DmaLen: no padding of short writes
DmaLenNoPad(r2, trdir, n) == n

\* the length handed to bus_dmamap_load: data->len, or 12 for a short write on
\* a controller with the "Data Write Operation and number of bytes" erratum
DmaLen(r2, trdir, n) ==
  IF ~trdir /\ r2 /\ n < ErratumLen THEN ErratumLen ELSE n

\* mutant of DmaVaddr: reads go through the bounce buffer too
DmaVaddrAlwaysBounce(trdir) == "bounce_buffer"

\* the buffer handed to bus_dmamap_load
DmaVaddr(trdir) == IF trdir THEN "data" ELSE "bounce_buffer"

\* mutant of ArmTransfer: the channel is enabled before the command is
\* written, whatever the direction
ArmTransferChannelFirst(s, cmd, cmdr, len, paddr) ==
  LET s1 == [s EXCEPT !.mapped = @ + 1,
                      !.hist.load = <<paddr, len, len \div 4>>]
      s2 == Ev(s1, <<"dmamap_sync",
                     IF cmdr.trdir THEN "PREREAD" ELSE "PREWRITE">>)
      s3 == IF cmdr.trdir THEN WR4(s2, "PDC_RPR", paddr)
                          ELSE WR4(s2, "PDC_TPR", paddr)
      s4 == IF cmdr.trdir THEN WR4(s3, "PDC_RCR", len \div 4)
                          ELSE WR4(s3, "PDC_TCR", len \div 4)
      ier == IF cmdr.trdir THEN {"ENDRX"} ELSE {"TXBUFE"}
      s5 == WR4(s4, "MCI_ARGR", cmd.arg)
      s6 == WR4(s5, "PDC_PTCR", IF cmdr.trdir THEN {"RXTEN"} ELSE {"TXTEN"})
      s7 == WR4(s6, "MCI_CMDR", cmdr)
  IN  WR4(s7, "MCI_IER", ErrorBits \cup ier)

\* the end of at91_mci_start_cmd for a data command whose map was loaded:
\* program the PDC, write the argument, arm channel and command in the order
\* the direction asks for, enable the interrupts
ArmTransfer(s, cmd, cmdr, len, paddr) ==
  LET s1 == [s EXCEPT !.mapped = @ + 1,
                      !.hist.load = <<paddr, len, len \div 4>>]
      s2 == Ev(s1, <<"dmamap_sync",
                     IF cmdr.trdir THEN "PREREAD" ELSE "PREWRITE">>)
      s3 == IF cmdr.trdir THEN WR4(s2, "PDC_RPR", paddr)
                          ELSE WR4(s2, "PDC_TPR", paddr)
      s4 == IF cmdr.trdir THEN WR4(s3, "PDC_RCR", len \div 4)
                          ELSE WR4(s3, "PDC_TCR", len \div 4)
      ier == IF cmdr.trdir THEN {"ENDRX"} ELSE {"TXBUFE"}
      s5 == WR4(s4, "MCI_ARGR", cmd.arg)
      s6 == IF cmdr.trdir THEN WR4(s5, "PDC_PTCR", {"RXTEN"})
                          ELSE WR4(s5, "MCI_CMDR", cmdr)
      s7 == IF cmdr.trdir THEN WR4(s6, "MCI_CMDR", cmdr)
                          ELSE WR4(s6, "PDC_PTCR", {"TXTEN"})
  IN  WR4(s7, "MCI_IER", ErrorBits \cup ier)

\* mutant of LoadFailed: sc->req is left set
LoadFailedKeepReq(s, which) ==
  LET c == CmdAt(s, which)
      s1 == SetCmd(s, which, [c EXCEPT !.error = "MMC_ERR_NO_MEMORY"])
      s2 == [s1 EXCEPT !.curcmd = NullCmd, !.hist.syncFail = which]
  IN  done(s2, c.mrq, "sync")

\* mutant of LoadFailed: sc->curcmd is left set
LoadFailedKeepCur(s, which) ==
  LET c == CmdAt(s, which)
      s1 == SetCmd(s, which, [c EXCEPT !.error = "MMC_ERR_NO_MEMORY"])
      s2 == [s1 EXCEPT !.req = 0, !.hist.syncFail = which]
  IN  done(s2, c.mrq, "sync")

\* mutant of LoadFailed: cmd->error is not set
LoadFailedNoError(s, which) ==
  LET c == CmdAt(s, which)
      s2 == [s EXCEPT !.req = 0, !.curcmd = NullCmd,
                      !.hist.syncFail = which]
  IN  done(s2, c.mrq, "sync")

\* the bus_dmamap_load failure branch of at91_mci_start_cmd
LoadFailed(s, which) ==
  LET c == CmdAt(s, which)
      s1 == SetCmd(s, which, [c EXCEPT !.error = "MMC_ERR_NO_MEMORY"])
      s2 == [s1 EXCEPT !.req = 0, !.curcmd = NullCmd,
                       !.hist.syncFail = which]
  IN  done(s2, c.mrq, "sync")

\* at91_mci_start_cmd(sc, cmd), cmd being req->cmd or req->stop;
\* dmaok is the outcome of bus_dmamap_load
at91_mci_start_cmd(s, which, dmaok) ==
  LET c0 == CmdAt(s, which)
      cmd == [c0 EXCEPT !.mrq = s.req]
      s0 == [Ev(SetCmd(s, which, cmd), <<"start_cmd", which, s.mapped>>)
               EXCEPT !.curcmd = <<s.req, which>>,
                      !.hist.events = <<>>, !.hist.loads = 0,
                      !.hist.load = <<>>, !.hist.filled = FALSE]
      data == cmd.data
      cmdr == Cmdr(cmd, s.host.ios.bus_mode)
  IN
  IF ~data.present
  THEN LET s1 == at91_mci_pdc_disable(s0)
           s2 == WR4(s1, "MCI_ARGR", cmd.arg)
           s3 == WR4(s2, "MCI_CMDR", cmdr)
       IN  WR4(s3, "MCI_IER", ErrorBits \cup {"CMDRDY"})
  ELSE
    LET s1 == WR4(s0, "MCI_MR",
                  [s0.regs.MCI_MR EXCEPT !.blklen = data.len,
                                         !.pdcmode = TRUE])
        s2 == WR4(s1, "PDC_PTCR", {"RXTDIS", "TXTDIS"})
    IN
    IF "START" \in cmdr.trcmd
    THEN
      LET len == DmaLen(s.rev2xx, cmdr.trdir, data.len)
          vaddr == DmaVaddr(cmdr.trdir)
          s3 == IF cmdr.trdir THEN s2
                ELSE [Ev(s2, <<"stage", data.len, len>>)
                        EXCEPT !.bounce =
                                 StageWrite(@, data.data, data.len, s.rev2xx,
                                            "CAP_NEEDS_BYTESWAP" \in s.sc_cap),
                               !.wsrc = data.data]
          s4 == SetCmd(s3, which, [cmd EXCEPT !.data.xfer_len = 0])
          s5 == Ev(s4, <<"dmamap_load", vaddr, len, dmaok>>)
          s6 == [s5 EXCEPT !.hist.loads = @ + 1]
      IN  IF ~dmaok THEN LoadFailed(s6, which)
          ELSE ArmTransfer(s6, cmd, cmdr, len, vaddr)
    ELSE
      LET s3 == WR4(s2, "MCI_ARGR", cmd.arg)
      IN  WR4(s3, "MCI_IER", ErrorBits)

\* mutant of at91_mci_start: STOP_STARTED is not set when the stop command
\* is started
at91_mci_start_noflag(s, dmaok) ==
  IF s.req = 0 THEN s
  ELSE IF CMD_STARTED \notin s.flags
  THEN at91_mci_start_cmd(
         [s EXCEPT !.flags = @ \cup {CMD_STARTED}, !.hist.cmdStarts = @ + 1],
         "cmd", dmaok)
  ELSE IF STOP_STARTED \notin s.flags /\ s.rq.stop.present
  THEN at91_mci_start_cmd([s EXCEPT !.hist.stopStarts = @ + 1],
                          "stop", dmaok)
  ELSE done([s EXCEPT !.req = 0, !.curcmd = NullCmd], s.req, "async")

\* mutant of at91_mci_start: sc->curcmd is not cleared on completion
at91_mci_start_keepcur(s, dmaok) ==
  IF s.req = 0 THEN s
  ELSE IF CMD_STARTED \notin s.flags
  THEN at91_mci_start_cmd(
         [s EXCEPT !.flags = @ \cup {CMD_STARTED}, !.hist.cmdStarts = @ + 1],
         "cmd", dmaok)
  ELSE IF STOP_STARTED \notin s.flags /\ s.rq.stop.present
  THEN at91_mci_start_cmd(
         [s EXCEPT !.flags = @ \cup {STOP_STARTED}, !.hist.stopStarts = @ + 1],
         "stop", dmaok)
  ELSE done([s EXCEPT !.req = 0], s.req, "async")

\* at91_mci_start(sc): the request-level driver loop
at91_mci_start(s, dmaok) ==
  IF s.req = 0 THEN s
  ELSE IF CMD_STARTED \notin s.flags
  THEN at91_mci_start_cmd(
         [s EXCEPT !.flags = @ \cup {CMD_STARTED}, !.hist.cmdStarts = @ + 1],
         "cmd", dmaok)
  ELSE IF STOP_STARTED \notin s.flags /\ s.rq.stop.present
  THEN at91_mci_start_cmd(
         [s EXCEPT !.flags = @ \cup {STOP_STARTED}, !.hist.stopStarts = @ + 1],
         "stop", dmaok)
  ELSE done([s EXCEPT !.req = 0, !.curcmd = NullCmd], s.req, "async")

\* the body of at91_mci_request once the busy test has passed: record the
\* request r under the id, reset the flags, run the driver loop
AcceptRequest(s, id, r, dmaok) ==
  at91_mci_start(
    [s EXCEPT !.req = id, !.rq = r, !.flags = {}, !.hist = NoHist], dmaok)

\* at91_mci_request(brdev, reqdev, req): the value returned
RequestRet(s) == IF s.req # 0 THEN EBUSY ELSE 0

\* mutant of at91_mci_request: no busy test
at91_mci_request_nobusy(s, id, r, dmaok) == AcceptRequest(s, id, r, dmaok)

\* at91_mci_request(brdev, reqdev, req): the state it leaves
at91_mci_request(s, id, r, dmaok) ==
  IF s.req # 0 THEN s ELSE AcceptRequest(s, id, r, dmaok)

(***************************************************************************)
(* Interrupt handler.                                                      *)
(***************************************************************************)
\* mutant of ErrorClass: the CRC bits are tested before the timeout bits
ErrorClassCrcFirst(sr, opcode) ==
  IF "RCRCE" \in sr /\ (opcode = MMC_SEND_OP_COND \/
                        opcode = ACMD_SD_SEND_OP_COND)
  THEN "MMC_ERR_NONE"
  ELSE IF sr \cap {"RCRCE", "DCRCE"} # {} THEN "MMC_ERR_BADCRC"
  ELSE IF sr \cap {"RTOE", "DTOE"} # {} THEN "MMC_ERR_TIMEOUT"
  ELSE IF sr \cap {"OVRE", "UNRE"} # {} THEN "MMC_ERR_FIFO"
  ELSE "MMC_ERR_FAILED"

\* cmd->error as the error branch of at91_mci_intr sets it
ErrorClass(sr, opcode) ==
  IF "RCRCE" \in sr /\ (opcode = MMC_SEND_OP_COND \/
                        opcode = ACMD_SD_SEND_OP_COND)
  THEN "MMC_ERR_NONE"
  ELSE IF sr \cap {"RTOE", "DTOE"} # {} THEN "MMC_ERR_TIMEOUT"
  ELSE IF sr \cap {"RCRCE", "DCRCE"} # {} THEN "MMC_ERR_BADCRC"
  ELSE IF sr \cap {"OVRE", "UNRE"} # {} THEN "MMC_ERR_FIFO"
  ELSE "MMC_ERR_FAILED"

\* the test that guards the unload in the error branch
UnloadOnError(m, err) == m # 0 /\ err # "MMC_ERR_NONE"

Seen(s, bit) == [s EXCEPT !.hist.events = Append(@, bit)]

\* mutant of at91_mci_read_done: end-of-receive is left enabled
at91_mci_read_done_keep_endrx(s) ==
  LET s1 == Ev(s, <<"dmamap_sync", "POSTREAD">>)
      s2 == Ev(s1, <<"dmamap_unload">>)
      s3 == [s2 EXCEPT !.mapped = @ - 1]
      s6 == WR4(s3, "MCI_IER", {"RXBUFF"})
  IN  WR4(s6, "PDC_PTCR", {"RXTDIS", "TXTDIS"})

at91_mci_read_done(s) ==
  LET s1 == Ev(s, <<"dmamap_sync", "POSTREAD">>)
      s2 == Ev(s1, <<"dmamap_unload">>)
      s3 == [s2 EXCEPT !.mapped = @ - 1]
      c == CmdAt(s, s.curcmd[2])
      s4 == IF "CAP_NEEDS_BYTESWAP" \in s.sc_cap
              THEN SetCmd(Ev(s3, <<"bswap", c.data.len \div 4>>), s.curcmd[2],
                          [c EXCEPT !.data.data =
                                      SwapWords(@, c.data.len \div 4)])
              ELSE s3
      s5 == WR4(s4, "MCI_IDR", {"ENDRX"})
      s6 == WR4(s5, "MCI_IER", {"RXBUFF"})
  IN  WR4(s6, "PDC_PTCR", {"RXTDIS", "TXTDIS"})

at91_mci_xmit_done(s) ==
  LET s1 == WR4(s, "PDC_PTCR", {"RXTDIS", "TXTDIS"})
      s2 == WR4(s1, "MCI_IDR", {"TXBUFE"})
      s3 == WR4(s2, "MCI_IER", {"NOTBUSY"})
      s4 == Ev(s3, <<"dmamap_sync", "POSTWRITE">>)
      s5 == Ev(s4, <<"dmamap_unload">>)
  IN  [s5 EXCEPT !.mapped = @ - 1]

\* mutant of IntrError: the error is stored in the primary command's slot
\* whichever command is current
IntrErrorPrimarySlot(s, sr) ==
  LET c == CmdAt(s, s.curcmd[2])
      err == ErrorClass(sr, c.opcode)
      s1 == SetCmd(s, "cmd", [s.rq.cmd EXCEPT !.error = err])
  IN  IF UnloadOnError(s1.mapped, err)
      THEN [Ev(s1, <<"dmamap_unload">>) EXCEPT !.mapped = @ - 1]
      ELSE s1

\* the error branch of at91_mci_intr
IntrError(s, sr) ==
  LET which == s.curcmd[2]
      c == CmdAt(s, which)
      err == ErrorClass(sr, c.opcode)
      s1 == SetCmd(s, which, [c EXCEPT !.error = err])
  IN  IF UnloadOnError(s1.mapped, err)
      THEN [Ev(s1, <<"dmamap_unload">>) EXCEPT !.mapped = @ - 1]
      ELSE s1

\* mutant of DoneBits: not-busy ends the step as command-ready does
DoneBitsWithNotBusy == {"CMDRDY", "NOTBUSY"}

\* the status bits of the non-error branch that end the step
DoneBits == {"CMDRDY"}

\* the non-error branch of at91_mci_intr, the tests in program order
IntrEvents(s, sr) ==
  LET s1 == IF "TXBUFE" \in sr
              THEN at91_mci_xmit_done(Seen(s, "TXBUFE")) ELSE s
      s2 == IF "RXBUFF" \in sr
              THEN WR4(WR4(Seen(s1, "RXBUFF"), "MCI_IDR", {"RXBUFF"}),
                       "MCI_IER", {"CMDRDY"})
              ELSE s1
      s3 == IF "ENDRX" \in sr
              THEN at91_mci_read_done(Seen(s2, "ENDRX")) ELSE s2
      s4 == IF "NOTBUSY" \in sr
              THEN WR4(WR4(Seen(s3, "NOTBUSY"), "MCI_IDR", {"NOTBUSY"}),
                       "MCI_IER", {"CMDRDY"})
              ELSE s3
      which == s.curcmd[2]
  IN  IF "CMDRDY" \in sr
      THEN SetCmd(Seen(s4, "CMDRDY"), which,
                  [CmdAt(s4, which) EXCEPT !.error = "MMC_ERR_NONE"])
      ELSE s4

\* mutant of RespWords: four words whenever a response is present
RespWordsAlwaysFour(cflags) ==
  IF "MMC_RSP_PRESENT" \notin cflags THEN 0 ELSE 4

\* the number of response words the handler copies
RespWords(cflags) ==
  IF "MMC_RSP_PRESENT" \notin cflags THEN 0
  ELSE IF "MMC_RSP_136" \in cflags THEN 4 ELSE 1

\* the if (done) block of at91_mci_intr
IntrDone(s, rspr, dmaok) ==
  LET s1 == WR4(s, "MCI_IDR", AllBits)
      which == s.curcmd[2]
      c == CmdAt(s1, which)
      n == RespWords(c.flags)
      s2 == IF s.curcmd # NullCmd /\ n > 0
              THEN SetCmd(Ev(s1, <<"RD4", "MCI_RSPR", n>>), which,
                     [c EXCEPT !.resp =
                        [i \in 1..4 |-> IF i <= n THEN rspr[i] ELSE @[i]]])
              ELSE s1
      s3 == [s2 EXCEPT !.hist.stepsDone = @ + 1,
                       !.hist.step =
                          [which |-> which, events |-> s.hist.events,
                           loads |-> s.hist.loads, load |-> s.hist.load,
                           end |-> IF s.hist.events # <<>> /\
                                      s.hist.events[Len(s.hist.events)]
                                         \in DoneBits
                                   THEN "ready" ELSE "error"]]
  IN  at91_mci_start(s3, dmaok)

\* at91_mci_intr(sc) with sr == RD4(MCI_SR) & RD4(MCI_IMR); rspr is what
\* MCI_RSPR holds and dmaok the outcome of a bus_dmamap_load the driver loop
\* may reach.  A NULL sc->curcmd is dereferenced when a status bit is handled.
at91_mci_intr(s, sr, rspr, dmaok) ==
  IF /\ s.curcmd = NullCmd
     /\ \/ sr \cap (ErrorBits \cup {"CMDRDY"}) # {}
        \/ "ENDRX" \in sr /\ "CAP_NEEDS_BYTESWAP" \in s.sc_cap
  THEN [s EXCEPT !.panic = TRUE]
  ELSE
    LET isErr == sr \cap ErrorBits # {}
        s1 == IF isErr THEN IntrError(s, sr) ELSE IntrEvents(s, sr)
        isDone == isErr \/ sr \cap DoneBits # {}
    IN  IF isDone THEN IntrDone(s1, rspr, dmaok) ELSE s1

(***************************************************************************)
(* Bus timing and the property accessors.                                  *)
(***************************************************************************)
bus_width_1 == 0
bus_width_4 == 2
EINVAL == 22

\* mutant of ClkDiv: one is subtracted whether or not 2f divides mck
ClkDivAlwaysMinusOne(use30, f, mck) ==
  IF use30 # 0 /\ f = NominalClock /\ mck > OverclockMck THEN 0
  ELSE ((mck \div f) \div 2) - 1

\* mutant of ClkDiv: the exact-match case is not told apart
ClkDivAlwaysRoundDown(use30, f, mck) ==
  IF use30 # 0 /\ f = NominalClock /\ mck > OverclockMck THEN 0
  ELSE (mck \div f) \div 2

\* the divider at91_mci_update_ios computes for a nonzero requested clock f
\* under master clock mck
ClkDiv(use30, f, mck) ==
  IF use30 # 0 /\ f = NominalClock /\ mck > OverclockMck THEN 0
  ELSE IF mck % (f * 2) = 0 THEN ((mck \div f) \div 2) - 1
  ELSE (mck \div f) \div 2

\* the clock stored back into ios->clock
AchievedClock(mck, clkdiv) == mck \div ((clkdiv + 1) * 2)

RECURSIVE BitOr(_, _)
BitOr(a, b) ==
  IF a = 0 THEN b
  ELSE IF b = 0 THEN a
  ELSE (IF a % 2 = 1 \/ b % 2 = 1 THEN 1 ELSE 0)
       + 2 * BitOr(a \div 2, b \div 2)

\* mutant of MrSetClkdiv: the divider is written without the register's
\* other bits read back
MrSetClkdivNoRead(mr, clkdiv) ==
  [clkdiv |-> clkdiv % 256, pwsdiv |-> (clkdiv \div 256) % 8,
   rdproof |-> FALSE, wrproof |-> FALSE, pdcmode |-> FALSE, blklen |-> 0]

\* (RD4(MCI_MR) & ~MCI_MR_CLKDIV) | clkdiv on the fields of the mode
\* register: CLKDIV bits 0-7, PWSDIV bits 8-10, RDPROOF 11, WRPROOF 12,
\* PDCMODE 15, BLKLEN 16-31
MrSetClkdiv(mr, clkdiv) ==
  LET B(b) == IF b THEN 1 ELSE 0
      hi == clkdiv \div 256
  IN  [clkdiv |-> clkdiv % 256,
       pwsdiv |-> BitOr(mr.pwsdiv, hi % 8),
       rdproof |-> mr.rdproof \/ (hi \div 8) % 2 = 1,
       wrproof |-> mr.wrproof \/ (hi \div 16) % 2 = 1,
       pdcmode |-> mr.pdcmode \/ (hi \div 128) % 2 = 1,
       blklen |-> BitOr(mr.blklen, clkdiv \div 65536)]

\* mutant of at91_mci_update_ios: the achieved clock is not stored back
at91_mci_update_ios_keepclock(s, use30, mck) ==
  LET f == s.host.ios.clock
      clkdiv == IF f = 0 THEN 0 ELSE ClkDiv(use30, f, mck)
      s1 == IF f = 0 THEN WR4(s, "MCI_CR", {"MCIDIS"})
            ELSE WR4(s, "MCI_CR", {"MCIEN", "PWSEN"})
      s2 == IF s.host.ios.bus_width = bus_width_4
              THEN WR4(s1, "MCI_SDCR", s1.regs.MCI_SDCR \cup {"SDCBUS"})
              ELSE WR4(s1, "MCI_SDCR", s1.regs.MCI_SDCR \ {"SDCBUS"})
  IN  WR4(s2, "MCI_MR", MrSetClkdiv(s2.regs.MCI_MR, clkdiv))

\* at91_mci_update_ios(brdev, reqdev)
at91_mci_update_ios(s, use30, mck) ==
  LET f == s.host.ios.clock
      clkdiv == IF f = 0 THEN 0 ELSE ClkDiv(use30, f, mck)
      s1 == IF f = 0 THEN WR4(s, "MCI_CR", {"MCIDIS"})
            ELSE [WR4(s, "MCI_CR", {"MCIEN", "PWSEN"})
                    EXCEPT !.host.ios.clock = AchievedClock(mck, clkdiv)]
      s2 == IF s.host.ios.bus_width = bus_width_4
              THEN WR4(s1, "MCI_SDCR", s1.regs.MCI_SDCR \cup {"SDCBUS"})
              ELSE WR4(s1, "MCI_SDCR", s1.regs.MCI_SDCR \ {"SDCBUS"})
  IN  WR4(s2, "MCI_MR", MrSetClkdiv(s2.regs.MCI_MR, clkdiv))

\* no at91_mci_update_ios call is between two of its register accesses
IdleUpd ==
  [pc |-> "idle", clkdiv |-> 0, wide |-> FALSE, sdcr |-> {},
   mr |-> InitMr(FALSE)]

\* at91_mci_update_ios, which takes no lock, from one register access to the
\* next: the control register write and the clock written back; the bus
\* width test and RD4(MCI_SDCR); WR4(MCI_SDCR); RD4(MCI_MR); WR4(MCI_MR)
UpdateIosStep(s, use30, mck) ==
  LET f == s.host.ios.clock
      clkdiv == IF f = 0 THEN 0 ELSE ClkDiv(use30, f, mck)
      s1 == IF f = 0 THEN WR4(s, "MCI_CR", {"MCIDIS"})
            ELSE [WR4(s, "MCI_CR", {"MCIEN", "PWSEN"})
                    EXCEPT !.host.ios.clock = AchievedClock(mck, clkdiv)]
  IN
  CASE s.upd.pc = "idle" ->
         [s1 EXCEPT !.upd.pc = "sdcr_rd", !.upd.clkdiv = clkdiv]
    [] s.upd.pc = "sdcr_rd" ->
         [s EXCEPT !.upd.pc = "sdcr_wr",
                   !.upd.wide = s.host.ios.bus_width = bus_width_4,
                   !.upd.sdcr = s.regs.MCI_SDCR]
    [] s.upd.pc = "sdcr_wr" ->
         [WR4(s, "MCI_SDCR",
              IF s.upd.wide THEN s.upd.sdcr \cup {"SDCBUS"}
              ELSE s.upd.sdcr \ {"SDCBUS"})
            EXCEPT !.upd.pc = "mr_rd"]
    [] s.upd.pc = "mr_rd" ->
         [s EXCEPT !.upd.pc = "mr_wr", !.upd.mr = s.regs.MCI_MR]
    [] s.upd.pc = "mr_wr" ->
         [WR4(s, "MCI_MR", MrSetClkdiv(s.upd.mr, s.upd.clkdiv))
            EXCEPT !.upd = IdleUpd]

WritableIvars ==
  {"BUS_MODE", "BUS_WIDTH", "CHIP_SELECT", "CLOCK", "MODE", "OCR",
   "POWER_MODE", "VDD"}

\* at91_mci_write_ivar(bus, child, which, value): the value returned
WriteIvarRet(which) == IF which \in WritableIvars THEN 0 ELSE EINVAL

\* mutant of at91_mci_write_ivar: F_MAX is stored although EINVAL is returned
at91_mci_write_ivar_fmax(s, which, value) ==
  CASE which = "BUS_MODE" -> [s EXCEPT !.host.ios.bus_mode = value]
    [] which = "BUS_WIDTH" -> [s EXCEPT !.host.ios.bus_width = value]
    [] which = "CHIP_SELECT" -> [s EXCEPT !.host.ios.chip_select = value]
    [] which = "CLOCK" -> [s EXCEPT !.host.ios.clock = value]
    [] which = "MODE" -> [s EXCEPT !.host.mode = value]
    [] which = "OCR" -> [s EXCEPT !.host.ocr = value]
    [] which = "POWER_MODE" -> [s EXCEPT !.host.ios.power_mode = value]
    [] which = "VDD" -> [s EXCEPT !.host.ios.vdd = value]
    [] which = "F_MAX" -> [s EXCEPT !.host.f_max = value]
    [] OTHER -> s

\* at91_mci_write_ivar(bus, child, which, value): the state it leaves
at91_mci_write_ivar(s, which, value) ==
  CASE which = "BUS_MODE" -> [s EXCEPT !.host.ios.bus_mode = value]
    [] which = "BUS_WIDTH" -> [s EXCEPT !.host.ios.bus_width = value]
    [] which = "CHIP_SELECT" -> [s EXCEPT !.host.ios.chip_select = value]
    [] which = "CLOCK" -> [s EXCEPT !.host.ios.clock = value]
    [] which = "MODE" -> [s EXCEPT !.host.mode = value]
    [] which = "OCR" -> [s EXCEPT !.host.ocr = value]
    [] which = "POWER_MODE" -> [s EXCEPT !.host.ios.power_mode = value]
    [] which = "VDD" -> [s EXCEPT !.host.ios.vdd = value]
    [] OTHER -> s

ReadOnlyIvars == {"CAPS", "HOST_OCR", "F_MIN", "F_MAX", "MAX_DATA"}

\* the keys of the switch statements, and one the switches do not name
IvarKeys == WritableIvars \cup ReadOnlyIvars \cup {"UNKNOWN"}

\* at91_mci_read_ivar(bus, child, which, result): the value returned
ReadIvarRet(which) ==
  IF which \in WritableIvars \cup ReadOnlyIvars THEN 0 ELSE EINVAL

\* mutant of at91_mci_read_ivar: host.caps is returned as attach left it
at91_mci_read_ivar_stale(s, w4, which) == s

\* at91_mci_read_ivar(bus, child, which, result): the state it leaves, w4
\* being sc->has_4wire; only the CAPS case writes to the softc
at91_mci_read_ivar(s, w4, which) ==
  IF which # "CAPS" THEN s
  ELSE IF w4 # 0
  THEN [s EXCEPT !.sc_cap = @ \cup {"CAP_HAS_4WIRE"},
                 !.host.caps = @ \cup {"MMC_CAP_4_BIT_DATA"}]
  ELSE [s EXCEPT !.sc_cap = @ \ {"CAP_HAS_4WIRE"},
                 !.host.caps = @ \ {"MMC_CAP_4_BIT_DATA"}]

\* at91_mci_read_ivar(bus, child, which, result): what is stored in
\* *result, read from the state t the switch case has left; nothing is
\* stored for a key the switch does not name
ReadIvarResult(t, which) ==
  CASE which = "BUS_MODE" -> t.host.ios.bus_mode
    [] which = "BUS_WIDTH" -> t.host.ios.bus_width
    [] which = "CHIP_SELECT" -> t.host.ios.chip_select
    [] which = "CLOCK" -> t.host.ios.clock
    [] which = "F_MIN" -> t.host.f_min
    [] which = "F_MAX" -> t.host.f_max
    [] which = "HOST_OCR" -> t.host.host_ocr
    [] which = "MODE" -> t.host.mode
    [] which = "OCR" -> t.host.ocr
    [] which = "POWER_MODE" -> t.host.ios.power_mode
    [] which = "VDD" -> t.host.ios.vdd
    [] which = "CAPS" -> t.host.caps
    [] which = "MAX_DATA" -> 1
    [] OTHER -> 0

\* sc->host as at91_mci_attach leaves it (the softc is zeroed on allocation)
InitHost(mck, cap) ==
  [f_min |-> F_MIN,
   f_max |-> IF mck \div 2 > NominalClock THEN NominalClock ELSE mck \div 2,
   host_ocr |-> {"MMC_OCR_320_330", "MMC_OCR_330_340"},
   caps |-> IF "CAP_HAS_4WIRE" \in cap THEN {"MMC_CAP_4_BIT_DATA"} ELSE {},
   mode |-> 0, ocr |-> 0,
   ios |-> [clock |-> 0, bus_width |-> bus_width_1, bus_mode |-> 0,
            chip_select |-> 0, power_mode |-> 0, vdd |-> 0]]

(***************************************************************************)
(* Bus ownership.  Both functions run with sc_mtx held from entry to       *)
(* return, msleep giving it up while the thread sleeps.                    *)
(***************************************************************************)
\* pc: "idle" outside the two functions, "holds" between a returned
\* acquire_host and the release_host, "msleep" asleep on sc, "runnable"
\* woken by wakeup(sc) and not yet running again
IdleCaller == [pc |-> "idle", naps |-> 0, ret |-> 0]

Min(a, b) == IF a <= b THEN a ELSE b

\* mutant of AcquireLoop: bus_busy is not tested
AcquireLoopNoTest(s, p) ==
  [s EXCEPT !.bus_busy = @ + 1, !.callers[p].pc = "holds",
            !.callers[p].ret = 0]

\* at91_mci_acquire_host from the test of its while loop on: sleep while
\* the bus is busy, else take it and return err, which is 0
AcquireLoop(s, p) ==
  IF s.bus_busy # 0
  THEN [s EXCEPT !.callers[p].pc = "msleep",
                 !.callers[p].naps = Min(@ + 1, MaxNaps)]
  ELSE [s EXCEPT !.bus_busy = @ + 1, !.callers[p].pc = "holds",
                 !.callers[p].ret = 0]

\* at91_mci_acquire_host(brdev, reqdev) called by thread p, up to its
\* first msleep or its return
at91_mci_acquire_host(s, p) ==
  AcquireLoop([s EXCEPT !.callers[p] = IdleCaller], p)

\* mutant of AfterSleep: a sleep that timed out ends the call with
\* EWOULDBLOCK
AfterSleepGiveUp(s, p, why) ==
  IF why = "timeout"
  THEN [s EXCEPT !.callers[p].pc = "idle", !.callers[p].ret = 35]
  ELSE AcquireLoop(s, p)

\* msleep has returned in thread p, woken by wakeup or by its timeout of
\* hz / 5: the value it returns is not looked at, the loop tests again
AfterSleep(s, p, why) == AcquireLoop(s, p)

\* at91_mci_release_host(brdev, reqdev) called by thread p; wakeup(sc)
\* makes every thread asleep on sc runnable
at91_mci_release_host(s, p) ==
  [s EXCEPT !.bus_busy = @ - 1,
            !.callers =
               [q \in DOMAIN @ |->
                  IF q = p THEN [@[q] EXCEPT !.pc = "idle", !.ret = 0]
                  ELSE IF @[q].pc = "msleep"
                  THEN [@[q] EXCEPT !.pc = "runnable"]
                  ELSE @[q]]]

(***************************************************************************)
(* Initial states and actions.                                             *)
(***************************************************************************)
NoLast ==
  [op |-> "attach", ret |-> 0, sr |-> {}, cur |-> NullCmd, opcode |-> 0,
   mappedIn |-> 0, key |-> "", val |-> 0, use30 |-> 0, clkdiv |-> 0,
   run |-> 0, res |-> 0, prev |-> ""]

\* master clocks of the boards
MasterClocks == {45000000, 50000001, 60000000, 100000000, 133333333}

\* sc->sc_cap as at91_mci_attach leaves it
InitCap(swap, w4) ==
  (IF swap THEN {"CAP_NEEDS_BYTESWAP"} ELSE {})
  \cup (IF w4 # 0 THEN {"CAP_HAS_4WIRE"} ELSE {})

\* the state at91_mci_attach leaves, on a board with master clock mck, with
\* or without the rev 2xx controller and the byte-swapping quirk, the
\* "4wire" hint being w4
AttachedHint(mck, r2, swap, w4) ==
  /\ req = 0
  /\ curcmd = NullCmd
  /\ flags = {}
  /\ mapped = 0
  /\ sc_cap = InitCap(swap, w4)
  /\ has_4wire = w4
  /\ use_30mhz = 1
  /\ host = InitHost(mck, InitCap(swap, w4))
  /\ imr = {}
  /\ regs = InitRegs(r2)
  /\ rq = NoRequest
  /\ rev2xx = r2
  /\ master_clock = mck
  /\ panic = FALSE
  /\ log = <<>>
  /\ last = NoLast
  /\ nsub = 0
  /\ doneCount = [i \in 1..MaxReq |-> 0]
  /\ hist = NoHist
  /\ bounce = <<>>
  /\ wsrc = <<>>
  /\ bus_busy = 0
  /\ callers = [p \in 1..MaxCallers |-> IdleCaller]
  /\ upd = IdleUpd

\* the same on a board without the "4wire" hint
Attached(mck, r2, swap) == AttachedHint(mck, r2, swap, 0)

Init == \E r2 \in BOOLEAN : Attached(60000000, r2, FALSE)

\* the status sets the controller can present to the handler
StatusSets == {sr \in SUBSET imr : sr # {} /\ Cardinality(sr) <= MaxStatusBits}

\* the mmc layer submits request r
Request(r, dmaok) ==
  /\ ~panic
  /\ req = 0 => nsub < MaxReq
  /\ Becomes(at91_mci_request([St EXCEPT !.log = <<>>], nsub + 1, r, dmaok))
  /\ last' = [NoLast EXCEPT !.op = "request", !.ret = RequestRet(St),
                            !.mappedIn = mapped]
  /\ nsub' = IF RequestRet(St) = 0 THEN nsub + 1 ELSE nsub
  /\ UNCHANGED <<has_4wire, use_30mhz, master_clock>>

\* the controller interrupts with masked status sr; rec: the status is kept
\* in last for inspection
Intr(sr, rspr, dmaok, rec) ==
  /\ ~panic
  /\ Becomes(at91_mci_intr([St EXCEPT !.log = <<>>], sr, rspr, dmaok))
  /\ last' = [NoLast EXCEPT !.op = "intr", !.sr = IF rec THEN sr ELSE {}, !.cur = curcmd,
                            !.opcode = CmdAt(St, curcmd[2]).opcode,
                            !.mappedIn = mapped]
  /\ UNCHANGED <<has_4wire, use_30mhz, master_clock, nsub>>

\* the outcomes of the bus_dmamap_load that starting command c reaches
LoadOutcomes(c) ==
  IF c.present /\ c.data.present
     /\ c.data.flags \cap {"MMC_DATA_READ", "MMC_DATA_WRITE"} # {}
  THEN BOOLEAN ELSE {TRUE}

\* the outcomes of the bus_dmamap_load a handler run can reach: that of the
\* stop command, when it is still to be started
IntrLoadOutcomes ==
  IF STOP_STARTED \in flags THEN {TRUE} ELSE LoadOutcomes(rq.stop)

Next ==
  \/ \E r \in Requests : \E dmaok \in LoadOutcomes(r.cmd) : Request(r, dmaok)
  \/ \E sr \in StatusSets, rspr \in RspRegs, dmaok \in IntrLoadOutcomes :
       Intr(sr, rspr, dmaok, FALSE)

Spec == Init /\ [][Next]_vars

\* One request, with the status of every handler run on record.
NextIntr ==
  \/ \E r \in Requests : \E dmaok \in LoadOutcomes(r.cmd) :
       nsub = 0 /\ Request(r, dmaok)
  \/ \E sr \in StatusSets, rspr \in RspRegs, dmaok \in IntrLoadOutcomes :
       Intr(sr, rspr, dmaok, TRUE)

SpecIntr == Init /\ [][NextIntr]_vars


(***************************************************************************)
(* Bus timing: the mmc layer writes the CLOCK property and calls           *)
(* update_ios; the 30mhz sysctl can be flipped at any time.                *)
(***************************************************************************)
InitIos == \E mck \in MasterClocks : Attached(mck, FALSE, FALSE)

\* the clocks requested: off, a rate below f_min, the card rates, and the
\* rates at and next to every divider slot of the master clock
ReqClocks(mck) ==
  {0, 100000, F_MIN, 400000, NominalClock}
  \cup {c \in {mck \div (2 * k) + e : k \in 1..MaxDivSlot, e \in {-1, 0, 1}} :
          c > 0}

WriteIvar(which, value) ==
  /\ Becomes(at91_mci_write_ivar([St EXCEPT !.log = <<>>], which, value))
  /\ last' = [NoLast EXCEPT !.op = "write_ivar", !.ret = WriteIvarRet(which),
                            !.key = which, !.val = value]
  /\ UNCHANGED <<has_4wire, use_30mhz, master_clock, nsub>>

UpdateIos ==
  /\ last.run < MaxUpdates
  /\ Becomes(at91_mci_update_ios([St EXCEPT !.log = <<>>], use_30mhz,
                                 master_clock))
  /\ last' = [NoLast EXCEPT
                !.op = "update_ios", !.val = host.ios.clock,
                !.use30 = use_30mhz, !.run = last.run + 1,
                !.clkdiv = IF host.ios.clock = 0 THEN 0
                           ELSE ClkDiv(use_30mhz, host.ios.clock,
                                       master_clock)]
  /\ UNCHANGED <<has_4wire, use_30mhz, master_clock, nsub>>

\* the mmc layer reads property which; when the call before it bears on
\* the value read (a write of the same key, an update_ios before a read of
\* CLOCK, a change of the 4wire flag before a read of CAPS) its record is
\* kept next to the result
ReadIvar(which) ==
  LET t == at91_mci_read_ivar([St EXCEPT !.log = <<>>], has_4wire, which)
      kept == IF \/ last.op = "write_ivar" /\ last.key = which
                 \/ last.op = "update_ios" /\ which = "CLOCK"
                 \/ last.op = "sysctl_4wire" /\ which = "CAPS"
              THEN last ELSE NoLast
  IN  /\ Becomes(t)
      /\ last' = [kept EXCEPT !.prev = kept.op, !.op = "read_ivar",
                              !.key = which, !.ret = ReadIvarRet(which),
                              !.res = ReadIvarResult(t, which),
                              !.run = last.run]
      /\ UNCHANGED <<has_4wire, use_30mhz, master_clock, nsub>>

\* the "30mhz" sysctl (CTLFLAG_RW on sc->use_30mhz)
SysctlUse30(v) ==
  /\ use_30mhz # v
  /\ use_30mhz' = v
  /\ UNCHANGED <<req, curcmd, flags, mapped, sc_cap, has_4wire, host, imr,
                 regs, rq, rev2xx, master_clock, panic, log, last, nsub,
                 doneCount, hist, bounce, wsrc, bus_busy, callers, upd>>

NextIos ==
  \/ \E v \in ReqClocks(master_clock) : WriteIvar("CLOCK", v)
  \/ UpdateIos
  \/ ReadIvar("CLOCK")
  \/ \E v \in {0, 1} : SysctlUse30(v)

SpecIos == InitIos /\ [][NextIos]_vars

(***************************************************************************)
(* The property accessors: the mmc layer reads and writes every key, the   *)
(* "4wire" sysctl can be changed at any time.                              *)
(***************************************************************************)
InitIvar == \E w4 \in {0, 1} : AttachedHint(60000000, FALSE, FALSE, w4)

\* a value to write under each key, no two keys sharing one; uintptr_t
\* and the fields of sc->host are all 32 bits wide on this machine, so a
\* value is stored and read back bit for bit
IvarValue(which) ==
  CASE which = "BUS_MODE" -> 2
    [] which = "BUS_WIDTH" -> 3
    [] which = "CHIP_SELECT" -> 1
    [] which = "CLOCK" -> 25000000
    [] which = "MODE" -> 4
    [] which = "OCR" -> 2147483647
    [] which = "POWER_MODE" -> 5
    [] which = "VDD" -> 21
    [] which = "CAPS" -> 6
    [] which = "HOST_OCR" -> 7
    [] which = "F_MIN" -> 8
    [] which = "F_MAX" -> 9
    [] which = "MAX_DATA" -> 10
    [] OTHER -> 11

\* the "4wire" sysctl (CTLFLAG_RW on sc->has_4wire)
Sysctl4wire(v) ==
  /\ has_4wire # v
  /\ has_4wire' = v
  /\ last' = [NoLast EXCEPT !.op = "sysctl_4wire", !.val = v]
  /\ UNCHANGED <<req, curcmd, flags, mapped, sc_cap, use_30mhz, host, imr,
                 regs, rq, rev2xx, master_clock, panic, log, nsub,
                 doneCount, hist, bounce, wsrc, bus_busy, callers, upd>>

NextIvar ==
  \/ \E k \in IvarKeys : \E v \in {0, IvarValue(k)} : WriteIvar(k, v)
  \/ \E k \in IvarKeys : ReadIvar(k)
  \/ \E v \in {0, 1, 2} : Sysctl4wire(v)

SpecIvar == InitIvar /\ [][NextIvar]_vars

(***************************************************************************)
(* update_ios next to the sequencer: the mmc layer sets the clock and      *)
(* calls update_ios, which runs register access by register access, while  *)
(* one request is submitted and served by the interrupt handler.           *)
(***************************************************************************)
\* the block commands without a stop command
RaceRequests ==
  {r \in Requests :
     r.cmd.opcode = 17 /\ r.cmd.flags = RspShort /\ ~r.stop.present}

\* the rates the mmc layer asks for
RaceClocks == {400000, NominalClock}

\* one step of the at91_mci_update_ios call in progress, or the first step
\* of a new call
IosStep ==
  /\ Becomes(UpdateIosStep([St EXCEPT !.log = <<>>], use_30mhz, master_clock))
  /\ last' = [NoLast EXCEPT !.op = "update_ios_step", !.key = upd.pc,
                            !.val = host.ios.clock]
  /\ UNCHANGED <<has_4wire, use_30mhz, master_clock, nsub>>

NextRace ==
  \/ \E r \in RaceRequests : \E dmaok \in LoadOutcomes(r.cmd) :
       nsub = 0 /\ Request(r, dmaok)
  \/ \E sr \in StatusSets, rspr \in RspRegs :
       Intr(sr, rspr, TRUE, FALSE)
  \/ \E v \in RaceClocks : upd.pc = "idle" /\ WriteIvar("CLOCK", v)
  \/ IosStep

SpecRace == Init /\ [][NextRace]_vars

(***************************************************************************)
(* Buffers: writes of every length staged through the bounce buffer and    *)
(* read back, on the three kinds of board, the card answering every        *)
(* command without error.                                                  *)
(***************************************************************************)
\* the boards: plain, with the MCI1 rev 2xx controller (SAM9, CAP9), and the
\* RM9200, whose controller needs the byte swap
Boards ==
  {[r2 |-> FALSE, swap |-> FALSE], [r2 |-> TRUE, swap |-> FALSE],
   [r2 |-> FALSE, swap |-> TRUE]}

InitBuf == \E b \in Boards : Attached(60000000, b.r2, b.swap)

\* a block write of the n bytes of Pattern(n)
WriteRequest(n) ==
  [cmd |-> MkCmd(24, RspShort, MkData({"MMC_DATA_WRITE"}, n)), stop |-> NoCmd]

\* a block read of n bytes
ReadRequest(n) ==
  [cmd |-> MkCmd(17, RspShort, MkData({"MMC_DATA_READ"}, n)), stop |-> NoCmd]

\* the card delivers the data of the read in progress: the bytes the last
\* write left staged, which is what it had been sent
CardReturns ==
  /\ ~panic
  /\ req # 0 /\ regs.rxten /\ ~hist.filled
  /\ LET c == CmdAt(St, curcmd[2]) IN
     /\ c.data.present /\ "MMC_DATA_READ" \in c.data.flags
     /\ c.data.len = Len(wsrc)
     /\ Becomes([SetCmd(St, curcmd[2],
                        [c EXCEPT !.data.data =
                           [i \in 1..c.data.len |-> BounceByte(bounce, i)]])
                   EXCEPT !.hist.filled = TRUE, !.log = <<>>])
  /\ last' = [NoLast EXCEPT !.op = "card"]
  /\ UNCHANGED <<has_4wire, use_30mhz, master_clock, nsub>>

\* the status the controller presents when the card answers without error
GoodStatus == {sr \in StatusSets : sr \cap ErrorBits = {}}

NextBuf ==
  \/ \E n \in 1..MaxBufLen : \E dmaok \in BOOLEAN :
       Request(WriteRequest(n), dmaok)
  \/ \E dmaok \in BOOLEAN :
       wsrc # <<>> /\ Request(ReadRequest(Len(wsrc)), dmaok)
  \/ CardReturns
  \/ \E sr \in GoodStatus, rspr \in RspRegs :
       Intr(sr, rspr, TRUE, FALSE)

SpecBuf == InitBuf /\ [][NextBuf]_vars

(***************************************************************************)
(* Bus ownership: the threads of the mmc layer acquire the bus, sleep      *)
(* while it is busy, and release it when they hold it.  The timeout of     *)
(* msleep lets a sleeping thread run again; a holder is assumed to release *)
(* the bus in the end.                                                     *)
(***************************************************************************)
AcquireHost(p) ==
  /\ callers[p].pc = "idle"
  /\ Becomes(at91_mci_acquire_host([St EXCEPT !.log = <<>>], p))
  /\ last' = [NoLast EXCEPT !.op = "acquire_host", !.val = p]
  /\ UNCHANGED <<has_4wire, use_30mhz, master_clock, nsub>>

\* thread p runs again after msleep: woken by wakeup, or its sleep timed out
Wake(p, why) ==
  /\ \/ callers[p].pc = "runnable" /\ why = "wakeup"
     \/ callers[p].pc = "msleep" /\ why = "timeout"
  /\ Becomes(AfterSleep([St EXCEPT !.log = <<>>], p, why))
  /\ last' = [NoLast EXCEPT !.op = "msleep", !.val = p, !.key = why]
  /\ UNCHANGED <<has_4wire, use_30mhz, master_clock, nsub>>

ReleaseHost(p) ==
  /\ callers[p].pc = "holds"
  /\ Becomes(at91_mci_release_host([St EXCEPT !.log = <<>>], p))
  /\ last' = [NoLast EXCEPT !.op = "release_host", !.val = p]
  /\ UNCHANGED <<has_4wire, use_30mhz, master_clock, nsub>>

NextHost ==
  \/ \E p \in 1..MaxCallers : AcquireHost(p)
  \/ \E p \in 1..MaxCallers, why \in {"wakeup", "timeout"} : Wake(p, why)
  \/ \E p \in 1..MaxCallers : ReleaseHost(p)

SpecHost ==
  /\ Init /\ [][NextHost]_vars
  /\ \A p \in 1..MaxCallers :
       /\ WF_vars(\E why \in {"wakeup", "timeout"} : Wake(p, why))
       /\ WF_vars(ReleaseHost(p))

(***************************************************************************)
(* Properties of the bus timing.                                           *)
(***************************************************************************)
\* update_ios has just run on a nonzero requested clock
IosRan == last.op = "update_ios" /\ last.val # 0

\* the overclock exception held when update_ios ran
IosOverclock ==
  last.use30 # 0 /\ last.val = NominalClock /\ master_clock > OverclockMck

\* C5: for a nonzero requested clock f <= f_max the clock update_ios stores
\* back, M / ((clkdiv+1)*2), does not exceed f, except under the overclock
\* exception (use_30mhz, f = 25 MHz, M > 50 MHz), where the divider is 0 and
\* the stored clock is M/2.
C5_ClockNeverExceeds ==
  (IosRan /\ last.val <= host.f_max) =>
     /\ host.ios.clock = master_clock \div ((last.clkdiv + 1) * 2)
     /\ ~IosOverclock => host.ios.clock <= last.val
     /\ IosOverclock => /\ last.clkdiv = 0
                        /\ regs.MCI_MR.clkdiv = 0
                        /\ host.ios.clock = master_clock \div 2

C5_Witness ==
  /\ IosRan /\ last.val <= host.f_max /\ IosOverclock
  /\ last.clkdiv = 0
  /\ host.ios.clock > last.val

\* a divider slot that is not an exact match, below the requested clock
IosRoundedDown ==
  /\ IosRan /\ last.val <= host.f_max /\ ~IosOverclock
  /\ last.clkdiv > 0
  /\ master_clock % (last.val * 2) # 0
  /\ host.ios.clock < last.val

\* C6 as stated: outside the overclock exception the divider is the smallest
\* d >= 0 with M / ((d+1)*2) <= f, the quotient being the integer the driver
\* stores back.  (The quotient does not grow with d, so d is the smallest
\* exactly when it meets the bound and d-1 does not.)
C6_SmallestRounded ==
  (IosRan /\ ~IosOverclock) =>
     /\ master_clock \div ((last.clkdiv + 1) * 2) <= last.val
     /\ last.clkdiv > 0 => master_clock \div (last.clkdiv * 2) > last.val

\* C6 as amended: outside the overclock exception the divider is the
\* smallest d >= 0 whose exact bus rate M / (2*(d+1)) does not exceed f,
\* that is, with M <= 2*f*(d+1).
C6_SmallestExact ==
  (IosRan /\ ~IosOverclock) =>
     /\ last.clkdiv >= 0
     /\ master_clock <= 2 * last.val * (last.clkdiv + 1)
     /\ last.clkdiv > 0 => master_clock > 2 * last.val * last.clkdiv

C6_Witness ==
  /\ IosRan /\ ~IosOverclock
  /\ last.clkdiv > 1
  /\ master_clock % (last.val * 2) # 0
  /\ master_clock \div (last.clkdiv * 2) = last.val


(***************************************************************************)
(* Properties of the sequencer and the interrupt handler.                  *)
(***************************************************************************)
\* the last operation invoked the completion callback
DoneCalled == \E i \in 1..Len(log) : log[i][1] = "done"

\* the position in log where the last at91_mci_start_cmd began, 0 if none
LastStart ==
  IF \E i \in 1..Len(log) : log[i][1] = "start_cmd"
  THEN CHOOSE i \in 1..Len(log) :
         /\ log[i][1] = "start_cmd"
         /\ \A j \in (i + 1)..Len(log) : log[j][1] # "start_cmd"
  ELSE 0

\* the last at91_mci_start_cmd wrote register reg
StartWrote(reg) ==
  \E i \in (LastStart + 1)..Len(log) : log[i][1] = "WR4" /\ log[i][2] = reg

\* the requests accepted and not yet completed
Outstanding == {i \in 1..nsub : doneCount[i] = 0}

\* C1: at most one request is outstanding, and it is the one sc->req
\* records; a submit made while sc->req is non-null returns EBUSY and leaves
\* the recorded request, the current command, the sequencer flags, the mapped
\* count, the enabled interrupts, the request object and the callback counts
\* as they were.
C1_OneOutstanding ==
  /\ [](Cardinality(Outstanding) <= 1 /\ Outstanding = {req} \ {0})
  /\ [][(last'.op = "request" /\ req # 0) =>
          /\ last'.ret = EBUSY
          /\ UNCHANGED <<req, curcmd, flags, mapped, imr, regs, rq,
                         doneCount, hist, nsub>>
          /\ log' = <<>>]_vars

C1_Witness ==
  /\ last.op = "request" /\ last.ret = EBUSY
  /\ req # 0 /\ curcmd[2] = "stop" /\ mapped = 1

\* C2 as stated: sc->mapped is always 0 or 1 and is 0 whenever the
\* completion callback is invoked.
C2_MappedZeroOrOne ==
  /\ mapped \in {0, 1}
  /\ DoneCalled => mapped = 0

\* C3: req->done is invoked at most once per request, exactly the accepted
\* requests that are no longer outstanding have had it invoked, and each
\* invocation came either from the bus_dmamap_load failure branch of
\* at91_mci_start_cmd or from the driver loop run by the interrupt handler.
C3_DoneOnce ==
  /\ \A i \in 1..MaxReq :
       /\ doneCount[i] <= 1
       /\ doneCount[i] = 1 <=> (i <= nsub /\ i # req)
  /\ (nsub > 0 /\ req = 0) =>
       /\ hist.donePath \in {"sync", "async"}
       /\ hist.donePath = "sync" <=> hist.syncFail # "none"
  /\ req # 0 => hist.donePath = "none"
  /\ (DoneCalled /\ hist.donePath = "async") => last.op = "intr"

C3_Witness ==
  /\ nsub = MaxReq /\ req = 0
  /\ doneCount[1] = 1 /\ doneCount[MaxReq] = 1
  /\ hist.donePath = "sync" /\ last.op = "intr"

\* the commands started and the steps ended for the request on record
StartedSteps == hist.cmdStarts + hist.stopStarts
EndedSteps == hist.stepsDone + (IF hist.syncFail = "none" THEN 0 ELSE 1)

\* C4: the primary command is started exactly once, the stop command at
\* most once, only if the request has one and only after the primary
\* command's step was marked done; while the request is outstanding exactly
\* one started step is pending, and when the callback has run no started
\* step is pending and no interrupt source is armed; a request that
\* completes from the driver loop has had its stop command started.
C4_PhaseOrder ==
  nsub > 0 =>
    /\ hist.cmdStarts = 1
    /\ hist.stopStarts <= 1
    /\ hist.stopStarts = 1 =>
         (rq.stop.present /\ hist.stepsDone >= 1 /\ STOP_STARTED \in flags)
    /\ CMD_STARTED \in flags
    /\ req # 0 => (StartedSteps = EndedSteps + 1 /\ curcmd[1] = req)
    /\ (req # 0 /\ hist.stopStarts = 0) => curcmd[2] = "cmd"
    /\ (req # 0 /\ hist.stopStarts = 1) =>
         (curcmd[2] = "stop" /\ hist.stepsDone = 1)
    /\ req = 0 => (StartedSteps = EndedSteps /\ imr = {})
    /\ (req = 0 /\ hist.donePath = "async") =>
         hist.stopStarts = (IF rq.stop.present THEN 1 ELSE 0)

C4_Witness ==
  /\ req = 0 /\ hist.donePath = "async"
  /\ hist.stopStarts = 1 /\ hist.stepsDone = 2
  /\ rq.cmd.error = "MMC_ERR_TIMEOUT"


\* the command whose bus_dmamap_load failed
FailedCmd == IF hist.syncFail = "stop" THEN rq.stop ELSE rq.cmd

\* C7: when bus_dmamap_load fails the command's error is no-memory, sc->req
\* and sc->curcmd are cleared and the callback has run before the call
\* returns (it is the last thing the operation did); that start wrote neither
\* MCI_CMDR nor MCI_IER, armed no DMA channel and did not raise the mapped
\* count; no interrupt source is enabled; and when the failing command is the
\* primary one, the stop command is never started.
C7_LoadFailure ==
  hist.syncFail # "none" =>
    /\ FailedCmd.error = "MMC_ERR_NO_MEMORY"
    /\ req = 0 /\ curcmd = NullCmd
    /\ doneCount[FailedCmd.mrq] = 1
    /\ Len(log) > 0 /\ log[Len(log)] = <<"done", FailedCmd.mrq>>
    /\ ~StartWrote("MCI_CMDR")
    /\ ~StartWrote("MCI_IER")
    /\ \A i \in (LastStart + 1)..Len(log) :
         (log[i][1] = "WR4" /\ log[i][2] = "PDC_PTCR") =>
            log[i][3] \cap {"RXTEN", "TXTEN"} = {}
    /\ ~regs.rxten /\ ~regs.txten
    /\ hist.load = <<>>
    /\ mapped <= last.mappedIn
    /\ imr = {}
    /\ hist.syncFail = "cmd" =>
         (hist.stopStarts = 0 /\ STOP_STARTED \notin flags)

C7_Witness ==
  /\ hist.syncFail = "cmd" /\ rq.stop.present
  /\ last.op = "request" /\ last.ret = 0
  /\ rq.cmd.error = "MMC_ERR_NO_MEMORY"

IsInitOpcode(op) == op \in {MMC_SEND_OP_COND, ACMD_SD_SEND_OP_COND}

\* the last handler run took the error branch
ErrIntr == last.op = "intr" /\ last.sr \cap ErrorBits # {}

\* the command the last handler run worked on
HandledCmd == CmdAt(St, last.cur[2])

\* the classification the error bits e call for: timeout first, then CRC,
\* then FIFO, then generic failure
Priority(e) ==
  IF "RTOE" \in e \/ "DTOE" \in e THEN "MMC_ERR_TIMEOUT"
  ELSE IF "RCRCE" \in e \/ "DCRCE" \in e THEN "MMC_ERR_BADCRC"
  ELSE IF "OVRE" \in e \/ "UNRE" \in e THEN "MMC_ERR_FIFO"
  ELSE "MMC_ERR_FAILED"

\* the last handler run marked the step of the command it worked on done
StepMarkedDone ==
  /\ hist.step.which = last.cur[2]
  /\ \E i \in 1..Len(log) :
       log[i][1] = "WR4" /\ log[i][2] = "MCI_IDR" /\ log[i][3] = AllBits

C9_OnlyRespCrcForgiven ==
  ErrIntr =>
    LET e == last.sr \cap ErrorBits IN
    IF IsInitOpcode(last.opcode)
    THEN /\ e = {"RCRCE"} => HandledCmd.error = "MMC_ERR_NONE"
         /\ e # {"RCRCE"} => HandledCmd.error = Priority(e \ {"RCRCE"})
    ELSE "RCRCE" \in e =>
           HandledCmd.error =
             (IF e \cap {"RTOE", "DTOE"} # {} THEN "MMC_ERR_TIMEOUT"
              ELSE "MMC_ERR_BADCRC")

IsRead(c) == c.data.present /\ "MMC_DATA_READ" \in c.data.flags

\* the command of the last step the handler marked done
FinishedCmd == CmdAt(St, hist.step.which)

ReadEvents == <<"ENDRX", "RXBUFF", "CMDRDY">>

\* while the step of a read command is pending the error bits and exactly
\* one of end-of-receive, buffer-full, command-ready are enabled: the one
\* that follows the events handled so far
ReadStages ==
  (req # 0 /\ IsRead(CmdAt(St, curcmd[2]))) =>
    /\ Len(hist.events) < 3
    /\ hist.events = SubSeq(ReadEvents, 1, Len(hist.events))
    /\ imr = ErrorBits \cup {ReadEvents[Len(hist.events) + 1]}

\* one DMA load of the caller's buffer with a receive count of len/4 words,
\* then end-of-receive, buffer-full, command-ready in this order
ReadSequence ==
  /\ hist.step.events = ReadEvents
  /\ hist.step.loads = 1
  /\ hist.step.load =
       <<"data", FinishedCmd.data.len, FinishedCmd.data.len \div 4>>

\* C10 as stated: a read command that ends with success has had one DMA
\* load with receive count len/4 and was marked done only after
\* end-of-receive, buffer-full and command-ready were handled in this order,
\* one of the three being enabled at each stage.
C10_SuccessfulReadOrder ==
  /\ ReadStages
  /\ (hist.step.which # "NULL" /\ IsRead(FinishedCmd)
        /\ FinishedCmd.error = "MMC_ERR_NONE") => ReadSequence

\* The command-ready path of a read: a read command whose step is marked
\* done by command-ready (and not by an error-class interrupt) ends with
\* success, has had one DMA load with receive count len/4 and was marked done
\* only after end-of-receive, buffer-full and command-ready were handled in
\* this order, one of the three being enabled at each stage.
ReadyReadOrder ==
  /\ ReadStages
  /\ (hist.step.which # "NULL" /\ IsRead(FinishedCmd)
        /\ hist.step.end = "ready") =>
       (ReadSequence /\ FinishedCmd.error = "MMC_ERR_NONE")

ReadyReadReached ==
  /\ hist.step.which = "cmd" /\ IsRead(FinishedCmd)
  /\ hist.step.end = "ready"
  /\ hist.step.load = <<"data", 512, 128>>
  /\ hist.step.events = ReadEvents
  /\ req = 0 /\ mapped = 0

(***************************************************************************)
(* Properties of starting a command.                                       *)
(***************************************************************************)
\* the command the last at91_mci_start_cmd of the last operation started
StartedCmd == CmdAt(St, log[LastStart][2])

\* the last operation started a command that carries no data
NoDataStart == LastStart > 0 /\ ~StartedCmd.data.present

\* what the last at91_mci_start_cmd did, in program order
StartLog == SubSeq(log, LastStart + 1, Len(log))

\* the registers at91_mci_pdc_disable writes, in program order
PdcDisableWrites ==
  <<<<"WR4", "PDC_PTCR", {"TXTDIS", "RXTDIS"}>>,
    <<"WR4", "PDC_RPR", "0">>, <<"WR4", "PDC_RCR", 0>>,
    <<"WR4", "PDC_RNPR", "0">>, <<"WR4", "PDC_RNCR", 0>>,
    <<"WR4", "PDC_TPR", "0">>, <<"WR4", "PDC_TCR", 0>>,
    <<"WR4", "PDC_TNPR", "0">>, <<"WR4", "PDC_TNCR", 0>>>>

\* C11: starting a command without data disables both DMA channels and zeroes
\* their pointer and count registers, loads no DMA map and leaves the mapped
\* count as it was, writes the argument register and then the command
\* register, and leaves exactly the error bits and command-ready enabled.
C11_NoDataStart ==
  NoDataStart =>
    /\ Len(StartLog) = 12
    /\ SubSeq(StartLog, 1, 9) = PdcDisableWrites
    /\ StartLog[10] = <<"WR4", "MCI_ARGR", StartedCmd.arg>>
    /\ StartLog[11][1] = "WR4" /\ StartLog[11][2] = "MCI_CMDR"
    /\ StartLog[11][3].opcode = StartedCmd.opcode
    /\ StartLog[11][3].trcmd \cap {"START"} = {}
    /\ StartLog[12] = <<"WR4", "MCI_IER", ErrorBits \cup {"CMDRDY"}>>
    /\ ~regs.rxten /\ ~regs.txten
    /\ regs.PDC_RPR = "0" /\ regs.PDC_RCR = 0
    /\ regs.PDC_RNPR = "0" /\ regs.PDC_RNCR = 0
    /\ regs.PDC_TPR = "0" /\ regs.PDC_TCR = 0
    /\ regs.PDC_TNPR = "0" /\ regs.PDC_TNCR = 0
    /\ mapped = log[LastStart][3]
    /\ hist.loads = 0
    /\ imr = ErrorBits \cup {"CMDRDY"}

\* a stop command without data started by the handler after a block read
\* had programmed the receive channel
C11_Witness ==
  /\ NoDataStart /\ last.op = "intr"
  /\ log[LastStart][2] = "stop"
  /\ IsRead(rq.cmd) /\ rq.cmd.error = "MMC_ERR_NONE"
  /\ hist.step.load = <<"data", 512, 128>>
  /\ regs.PDC_RPR = "0"

(***************************************************************************)
(* Properties of marking a step done.                                      *)
(***************************************************************************)
\* the position in log where the last operation disabled every interrupt
\* source to mark a step done, 0 if it did not
DoneAt ==
  IF \E i \in 1..Len(log) : log[i] = <<"WR4", "MCI_IDR", AllBits>>
  THEN CHOOSE i \in 1..Len(log) : log[i] = <<"WR4", "MCI_IDR", AllBits>>
  ELSE 0

\* the words the response of a command with flags fl must take
ExpectedWords(fl) ==
  IF fl = RspLong THEN 4 ELSE IF fl = RspShort THEN 1 ELSE 0

\* the driver loop events of the last operation: a command started, the
\* completion callback invoked
LoopEvents == {i \in 1..Len(log) : log[i][1] \in {"start_cmd", "done"}}

\* C12: when the handler marks a step done it disables every interrupt
\* source before the driver loop advances (no command is started, no
\* callback invoked and no source enabled between the two), and it copies 4
\* response words for a long response, 1 for a short one and none for a
\* command without response, the other words of the command's response
\* keeping the values they had.
C12_StepDoneResponse ==
  /\ [](DoneAt > 0 =>
          /\ last.op = "intr"
          /\ \A i \in 1..Len(log) : log[i] = <<"WR4", "MCI_IDR", AllBits>>
                                      => i = DoneAt
          /\ LoopEvents # {}
          /\ \A i \in LoopEvents : i > DoneAt
          /\ \A i \in (DoneAt + 1)..Len(log) :
               (log[i][1] = "WR4" /\ log[i][2] = "MCI_IER") =>
                  \E j \in LoopEvents : j < i
          /\ LET n == ExpectedWords(HandledCmd.flags) IN
             /\ \A i \in 1..4 : i <= n => HandledCmd.resp[i] = i
             /\ n > 0 => log[DoneAt + 1] = <<"RD4", "MCI_RSPR", n>>
             /\ n = 0 => \A i \in 1..Len(log) : log[i][1] # "RD4")
  /\ [][(last'.op = "intr" /\ curcmd # NullCmd) =>
          LET which == curcmd[2]
              c == IF which = "stop" THEN rq.stop ELSE rq.cmd
              d == IF which = "stop" THEN rq'.stop ELSE rq'.cmd
              n == ExpectedWords(c.flags)
          IN  \A i \in 1..4 : i > n => d.resp[i] = c.resp[i]]_vars

\* a long response and a short response copied, a response-less command done
C12_Witness ==
  /\ DoneAt > 0
  /\ HandledCmd.flags = RspLong
  /\ HandledCmd.resp = <<1, 2, 3, 4>>
  /\ req = 0 /\ imr = {}

(***************************************************************************)
(* Properties of the staged buffers.                                       *)
(***************************************************************************)
\* the last operation started a write: a data command sent from the bounce
\* buffer
WriteStart ==
  /\ LastStart > 0
  /\ StartedCmd.data.present
  /\ "MMC_DATA_WRITE" \in StartedCmd.data.flags
  /\ "MMC_DATA_READ" \notin StartedCmd.data.flags

\* the short-write erratum applies to the write started
Padded == rev2xx /\ StartedCmd.data.len < ErratumLen

\* the bus_dmamap_load calls of the last at91_mci_start_cmd
Loads == {i \in (LastStart + 1)..Len(log) : log[i][1] = "dmamap_load"}

\* C13: a write of n < 12 bytes on a controller with the short-write erratum
\* leaves the caller's n bytes followed by zeros up to byte 12 in the bounce
\* buffer, loads 12 bytes of it and programs a transmit count of 3 words,
\* data->len and the block length staying n; every other write loads
\* data->len bytes with a transmit count of data->len / 4.
C13_ShortWritePadding ==
  WriteStart =>
    LET n == StartedCmd.data.len
        src == StartedCmd.data.data
        dl == IF Padded THEN ErratumLen ELSE n
    IN  /\ Cardinality(Loads) = 1
        /\ \A i \in Loads :
             log[i][2] = "bounce_buffer" /\ log[i][3] = dl
        /\ Len(src) = n /\ src = wsrc
        /\ regs.MCI_MR.blklen = n
        /\ Padded =>
             /\ \A i \in 1..n : BounceByte(bounce, i) = src[i]
             /\ \A i \in (n + 1)..ErratumLen : BounceByte(bounce, i) = 0
        /\ StartWrote("MCI_CMDR") =>
             /\ regs.PDC_TCR = dl \div 4
             /\ Padded => regs.PDC_TCR = 3
             /\ regs.PDC_TPR = "bounce_buffer"
             /\ hist.load = <<"bounce_buffer", dl, dl \div 4>>

\* a 3-byte write padded over what a 13-byte write had left staged
C13_Witness ==
  /\ WriteStart /\ Padded
  /\ StartedCmd.data.len = 3
  /\ Len(bounce) = 13 /\ bounce[13] = 13
  /\ regs.PDC_TCR = 3 /\ StartWrote("MCI_CMDR")

\* read_done has run on a buffer that held the bytes the last write staged,
\* on a controller that needs the byte swap
SwappedBack ==
  /\ "CAP_NEEDS_BYTESWAP" \in sc_cap
  /\ IsRead(rq.cmd) /\ hist.filled
  /\ \E i \in 1..Len(hist.events) : hist.events[i] = "ENDRX"

\* C14 as stated: on a controller with CAP_NEEDS_BYTESWAP the bytes a write
\* of any length staged, passed through the swap of at91_mci_read_done, are
\* the caller's bytes of that write.
C14_SwapRoundTrip == SwappedBack => rq.cmd.data.data = wsrc

\* The round trip over whole words: for a length that is a multiple of 4
\* the bytes read back are the caller's, and for any length the bytes of the
\* whole words are.
RoundTripWholeWords ==
  SwappedBack =>
    /\ Len(rq.cmd.data.data) = Len(wsrc)
    /\ \A i \in 1..(4 * (Len(wsrc) \div 4)) : rq.cmd.data.data[i] = wsrc[i]

RoundTripReached ==
  /\ SwappedBack /\ Len(wsrc) = 8
  /\ rq.cmd.data.data = Pattern(8)
  /\ SubSeq(bounce, 1, 8) = <<4, 3, 2, 1, 8, 7, 6, 5>>

(***************************************************************************)
(* Properties of the bus ownership.                                        *)
(***************************************************************************)
Holders == {p \in 1..MaxCallers : callers[p].pc = "holds"}

Waiting(p) == callers[p].pc \in {"msleep", "runnable"}

\* C15: with every release issued by the holder, bus_busy is 0 or 1 and
\* counts the holders, so that at most one caller is between a returned
\* acquire and its release; a caller that found the bus busy is asleep or
\* waiting to run, never a holder, and an acquire returns only from a state
\* where nobody holds the bus.
C15_MutualExclusion ==
  /\ [](/\ bus_busy \in {0, 1}
        /\ Cardinality(Holders) = bus_busy
        /\ \A p \in 1..MaxCallers : Waiting(p) => callers[p].naps >= 1)
  /\ [][\A p \in 1..MaxCallers :
          (callers[p].pc # "holds" /\ callers'[p].pc = "holds") =>
             (bus_busy = 0 /\ Holders = {} /\ Holders' = {p})]_vars

\* a caller that slept holds the bus after the holder released it, another
\* one is still waiting
C15_Witness ==
  \E p, q \in 1..MaxCallers :
    /\ p # q
    /\ callers[p].pc = "holds" /\ callers[p].naps >= 1
    /\ Waiting(q)
    /\ bus_busy = 1

\* a sleep that timed out while the bus was busy tests bus_busy and sleeps
\* again, nothing else changing; every return of acquire_host is with 0 and
\* with the bus held
NoGiveUp ==
  /\ [](\A p \in 1..MaxCallers : callers[p].ret = 0)
  /\ [][(last'.op = "msleep" /\ bus_busy # 0) =>
          /\ bus_busy' = bus_busy
          /\ callers'[last'.val].pc = "msleep"
          /\ \A q \in 1..MaxCallers :
               q # last'.val => callers'[q] = callers[q]]_vars
  /\ [][\A p \in 1..MaxCallers :
          (Waiting(p) /\ ~Waiting(p)') => callers'[p].pc = "holds"]_vars

\* w is the only caller waiting for the bus
SingleWaiter(w) ==
  Waiting(w) /\ \A q \in 1..MaxCallers : q # w => ~Waiting(q)

\* thread w finds the bus free after its sleep and takes it
WakeAcquires(w) ==
  bus_busy = 0 /\ \E why \in {"wakeup", "timeout"} : Wake(w, why)

\* C16 as stated: a timeout never ends the wait, the call returns 0, and,
\* the holders releasing in the end and the waiter running again after each
\* sleep (weak fairness), a single waiter acquires the bus in the end.
C16_WaiterAcquires ==
  /\ NoGiveUp
  /\ \A w \in 1..MaxCallers : SingleWaiter(w) ~> (callers[w].pc = "holds")

\* C16 as amended: a timeout never ends the wait and the call returns 0; a
\* single waiter acquires the bus in the end when it is not passed over for
\* ever, that is, under strong fairness of its finding the bus free.
C16_WaiterAcquiresFair ==
  /\ NoGiveUp
  /\ \A w \in 1..MaxCallers :
       SF_vars(WakeAcquires(w)) =>
          (SingleWaiter(w) ~> (callers[w].pc = "holds"))

\* the sleep of a waiter has timed out with the bus busy, and the waiter
\* sleeps again
C16_Witness ==
  \E w \in 1..MaxCallers :
    /\ last.op = "msleep" /\ last.val = w /\ last.key = "timeout"
    /\ callers[w].pc = "msleep" /\ callers[w].naps = MaxNaps
    /\ bus_busy = 1 /\ SingleWaiter(w)

(***************************************************************************)
(* Properties of the controller after a failed request.                    *)
(***************************************************************************)
ErrorOutcomes ==
  {"MMC_ERR_TIMEOUT", "MMC_ERR_BADCRC", "MMC_ERR_FIFO", "MMC_ERR_FAILED",
   "MMC_ERR_NO_MEMORY"}

\* the last request has completed and one of its commands ended in error
FailedRequest ==
  /\ nsub > 0 /\ req = 0
  /\ rq.cmd.error \in ErrorOutcomes \/ rq.stop.error \in ErrorOutcomes

\* C17: once a request has completed with an error outcome, the recorded
\* request and the current command are null and no interrupt source is
\* enabled; the next submit is accepted (returns 0), resets the sequencer
\* flags and starts the primary command of the new request.
C17_UsableAfterError ==
  /\ [](FailedRequest =>
          /\ curcmd = NullCmd /\ imr = {} /\ ~panic
          /\ doneCount[nsub] = 1)
  /\ [][(FailedRequest /\ last'.op = "request") =>
          /\ last'.ret = 0
          /\ nsub' = nsub + 1
          /\ flags' = {CMD_STARTED}
          /\ hist'.cmdStarts = 1 /\ hist'.stopStarts = 0
          /\ rq'.cmd.mrq = nsub'
          /\ rq'.cmd.error \in {"MMC_ERR_NONE", "MMC_ERR_NO_MEMORY"}
          /\ \E i \in 1..Len(log') : log'[i] = <<"start_cmd", "cmd", mapped>>
          /\ \/ req' = nsub' /\ curcmd' = <<nsub', "cmd">>
             \/ req' = 0 /\ hist'.syncFail = "cmd"]_vars

\* a request whose primary command timed out and whose stop command could
\* not be mapped has completed
C17_Witness ==
  /\ FailedRequest
  /\ rq.cmd.error = "MMC_ERR_TIMEOUT"
  /\ rq.stop.error = "MMC_ERR_NO_MEMORY"
  /\ last.op = "intr" /\ imr = {} /\ curcmd = NullCmd

(***************************************************************************)
(* Properties of the property accessors.                                   *)
(***************************************************************************)
\* the last call was a read of the capabilities
CapsRead == last.op = "read_ivar" /\ last.key = "CAPS"

\* C18: whatever changes of has_4wire came before it, a read of the CAPS
\* property returns 0 and a mask whose 4-bit-data bit is set exactly when
\* has_4wire is nonzero at the time of the read, and leaves the
\* CAP_HAS_4WIRE bit of sc_cap and host.caps in agreement with the flag.
C18_CapsFollow4wire ==
  CapsRead =>
     /\ last.ret = 0
     /\ ("MMC_CAP_4_BIT_DATA" \in last.res) <=> (has_4wire # 0)
     /\ ("CAP_HAS_4WIRE" \in sc_cap) <=> (has_4wire # 0)
     /\ host.caps = last.res

\* the flag was set to 2 by the sysctl and the capabilities were read next
C18_Witness ==
  /\ CapsRead /\ last.prev = "sysctl_4wire"
  /\ last.val = 2 /\ has_4wire = 2
  /\ last.res = {"MMC_CAP_4_BIT_DATA"}

\* the value of the host parameter behind key k in host record h
HostParam(h, k) == ReadIvarResult([host |-> h], k)

\* everything in the softc but the host parameters
SoftcRest ==
  <<req, curcmd, flags, mapped, sc_cap, has_4wire, use_30mhz, imr, regs, rq,
    bounce, bus_busy>>

\* C19: write_ivar on a read-only or unknown key returns EINVAL and changes
\* no host parameter; on a writable key it returns 0 and changes that
\* parameter only, and a read_ivar of the same key right after it returns 0
\* and the value written.
C19_AccessorSplit ==
  /\ [][last'.op = "write_ivar" =>
          /\ UNCHANGED SoftcRest
          /\ IF last'.key \in WritableIvars
             THEN /\ last'.ret = 0
                  /\ HostParam(host', last'.key) = last'.val
                  /\ \A k \in IvarKeys \ {last'.key, "UNKNOWN"} :
                       HostParam(host', k) = HostParam(host, k)
             ELSE /\ last'.ret = EINVAL
                  /\ host' = host]_vars
  /\ [][(/\ last.op = "write_ivar" /\ last.key \in WritableIvars
         /\ last'.op = "read_ivar" /\ last'.key = last.key) =>
          /\ last'.ret = 0
          /\ last'.res = last.val
          /\ host' = host]_vars

\* OCR was written after VDD and read back
C19_Witness ==
  /\ last.op = "read_ivar" /\ last.prev = "write_ivar"
  /\ last.key = "OCR" /\ last.val = IvarValue("OCR")
  /\ last.res = IvarValue("OCR") /\ last.ret = 0
  /\ host.ios.vdd = IvarValue("VDD")
  /\ host.ios.clock = 0

\* C20: update_ios with requested clock 0 writes MCIDIS to the control
\* register, programs divider 0 and leaves the stored clock 0; with a
\* nonzero requested clock it writes MCIEN|PWSEN, programs the divider d it
\* computed (its low 8 bits land in CLKDIV) and stores M / ((d+1)*2) in
\* place of the requested clock, and a read of the CLOCK property right
\* after it returns that stored rate.  Requested clocks are below 2^31.
C20_UpdateTiming ==
  /\ [](last.op = "update_ios" =>
          IF last.val = 0
          THEN /\ regs.MCI_CR = {"MCIDIS"}
               /\ regs.MCI_MR.clkdiv = 0
               /\ host.ios.clock = 0
          ELSE /\ regs.MCI_CR = {"MCIEN", "PWSEN"}
               /\ regs.MCI_MR.clkdiv = last.clkdiv % 256
               /\ host.ios.clock * 2 * (last.clkdiv + 1) <= master_clock
               /\ master_clock < (host.ios.clock + 1) * 2 * (last.clkdiv + 1))
  /\ [][(last.op = "update_ios" /\ last'.op = "read_ivar") =>
          /\ last'.ret = 0
          /\ last'.res = host.ios.clock
          /\ host' = host]_vars

\* the CLOCK property read after an update_ios that rounded the requested
\* clock down
C20_Witness ==
  /\ last.op = "read_ivar" /\ last.prev = "update_ios" /\ last.key = "CLOCK"
  /\ last.val # 0 /\ last.res < last.val
  /\ last.res = master_clock \div ((last.clkdiv + 1) * 2)
  /\ regs.MCI_CR = {"MCIEN", "PWSEN"}

(***************************************************************************)
(* Properties of the DMA mapping in the error branch.                      *)
(***************************************************************************)
\* sc->mapped when the last handler run entered at91_mci_start: the count
\* the start of the next command found, or the count the completion left
AdvanceMapped ==
  IF LastStart > 0 THEN log[LastStart][3] ELSE mapped

\* C21 as stated: when the handler has processed an error-class status with
\* a mapping loaded on entry, the mapped count is 0 when it advances the
\* driver loop, also when the error is a response-CRC error forgiven on a
\* card-initialization opcode.
C21_ErrorUnloads ==
  (ErrIntr /\ last.mappedIn # 0) => AdvanceMapped = 0

\* the mapping is unloaded in the error branch when the error recorded is
\* not success
ErrorUnloadsOnFailure ==
  (ErrIntr /\ last.mappedIn # 0 /\ HandledCmd.error # "MMC_ERR_NONE") =>
     AdvanceMapped = last.mappedIn - 1

\* a forgiven response-CRC error on a data command left the mapping loaded
ForgivenErrorKeepsMap ==
  /\ ErrIntr /\ last.mappedIn = 1 /\ IsInitOpcode(last.opcode)
  /\ "RCRCE" \in last.sr
  /\ HandledCmd.error = "MMC_ERR_NONE"
  /\ AdvanceMapped = 1

(***************************************************************************)
(* Properties of the write path.                                           *)
(***************************************************************************)
IsWrite(c) ==
  /\ c.data.present
  /\ "MMC_DATA_WRITE" \in c.data.flags
  /\ "MMC_DATA_READ" \notin c.data.flags

\* the last handler run observed not-busy and no error bit
NotBusyIntr ==
  last.op = "intr" /\ "NOTBUSY" \in last.sr /\ last.sr \cap ErrorBits = {}

\* the last handler run wrote 0xffffffff to MCI_IDR
DisabledAll ==
  \E i \in 1..Len(log) :
    log[i][1] = "WR4" /\ log[i][2] = "MCI_IDR" /\ log[i][3] = AllBits

\* the last handler run read the response registers
ReadResponse ==
  \E i \in 1..Len(log) : log[i][1] = "RD4" /\ log[i][2] = "MCI_RSPR"

\* the last handler run entered the driver loop past its first test
Advanced == \E i \in 1..Len(log) : log[i][1] \in {"start_cmd", "done"}

TransferStart ==
  /\ LastStart > 0
  /\ StartedCmd.data.present
  /\ \E i \in Loads : log[i][4]

\* the positions in log of the writes the last at91_mci_start_cmd made to reg
RegWrites(reg) ==
  {i \in (LastStart + 1)..Len(log) : log[i][1] = "WR4" /\ log[i][2] = reg}

\* the positions of its writes to PDC_PTCR that carry bit
ChannelWrites(bit) == {i \in RegWrites("PDC_PTCR") : bit \in log[i][3]}

\* every position of A comes before every position of B, neither empty
Before(A, B) == A # {} /\ B # {} /\ \A i \in A, j \in B : i < j

\* C23: when a transfer is started, a read enables the receive channel and
\* then writes the command register, a write writes the command register and
\* then enables the transmit channel; the DMA pointer and count of the
\* direction and the argument register are written before both, and the
\* interrupt enable register is written last.
C23_ArmingOrder ==
  TransferStart =>
    LET rd == IsRead(StartedCmd)
        ptr == RegWrites(IF rd THEN "PDC_RPR" ELSE "PDC_TPR")
        cnt == RegWrites(IF rd THEN "PDC_RCR" ELSE "PDC_TCR")
        arg == RegWrites("MCI_ARGR")
        chn == ChannelWrites(IF rd THEN "RXTEN" ELSE "TXTEN")
        cmd == RegWrites("MCI_CMDR")
        ier == RegWrites("MCI_IER")
    IN  /\ Cardinality(chn) = 1 /\ Cardinality(cmd) = 1
        /\ IF rd THEN Before(chn, cmd) ELSE Before(cmd, chn)
        /\ Before(ptr \cup cnt \cup arg, chn \cup cmd)
        /\ ptr # {} /\ cnt # {} /\ arg # {}
        /\ ier = {Len(log)}
        /\ ChannelWrites(IF rd THEN "TXTEN" ELSE "RXTEN") = {}

\* a write has been armed by the submit that started it
C23_Witness ==
  /\ TransferStart /\ IsWrite(StartedCmd)
  /\ last.op = "request"
  /\ regs.txten /\ ~regs.rxten
  /\ imr = ErrorBits \cup {"TXBUFE"}

(***************************************************************************)
(* Properties of the buffer that is mapped.                                *)
(***************************************************************************)
\* C24: the buffer handed to bus_dmamap_load is the bounce buffer exactly
\* when the command started is a write; a read maps the caller's buffer,
\* also on a controller that needs the byte swap; the receive pointer never
\* holds the bounce buffer, the transmit pointer never the caller's buffer,
\* and the caller's bytes of a write stay as they were handed in.
C24_BounceIffWrite ==
  /\ (LastStart > 0 /\ StartedCmd.data.present) =>
       /\ Cardinality(Loads) = 1
       /\ \A i \in Loads :
            /\ log[i][2] = "bounce_buffer" <=> IsWrite(StartedCmd)
            /\ IsRead(StartedCmd) => log[i][2] = "data"
  /\ regs.PDC_RPR \in {"0", "data"}
  /\ regs.PDC_TPR \in {"0", "bounce_buffer"}
  /\ IsWrite(rq.cmd) =>
       /\ rq.cmd.data.data = Pattern(rq.cmd.data.len)
       /\ req # 0 => wsrc = rq.cmd.data.data

\* a read has been started on the controller that needs the byte swap
C24_Witness ==
  /\ "CAP_NEEDS_BYTESWAP" \in sc_cap
  /\ LastStart > 0 /\ IsRead(StartedCmd)
  /\ \E i \in Loads : log[i][2] = "data" /\ log[i][4]
  /\ regs.PDC_RPR = "data" /\ regs.rxten
  /\ regs.PDC_TPR = "0"

(***************************************************************************)
(* Properties of the register accesses of update_ios.                      *)
(***************************************************************************)
\* a data command is in progress: at91_mci_start_cmd has written its block
\* length and PDCMODE to the mode register
DataInProgress ==
  req # 0 /\ curcmd # NullCmd /\ CmdAt(St, curcmd[2]).data.present

\* C25 as stated: the register accesses of update_ios are made under the
\* controller lock and cannot interleave with the read-modify-write of the
\* mode register in at91_mci_start_cmd, so no register update is lost: the
\* mode register holds the block length and PDCMODE that at91_mci_start_cmd
\* wrote for as long as the data command is in progress.
C25_NoLostUpdate ==
  DataInProgress =>
     /\ regs.MCI_MR.blklen = CmdAt(St, curcmd[2]).data.len
     /\ regs.MCI_MR.pdcmode

\* the block length of a command in progress, overwritten
LostBlockLength ==
  /\ DataInProgress
  /\ curcmd = <<1, "cmd">> /\ IsRead(rq.cmd) /\ rq.cmd.data.len = 512
  /\ regs.MCI_MR.blklen = 0
  /\ last.op = "update_ios_step" /\ last.key = "mr_wr"

(***************************************************************************)
(* Properties of the current command.                                      *)
(***************************************************************************)
\* C26: between two runs of the locked sections the current command is
\* null exactly when no request is outstanding; while a request is
\* outstanding it is that request's primary command until the stop command
\* is started and its stop command from then on, never a command of another
\* request.
C26_CurrentCommand ==
  /\ curcmd = NullCmd <=> req = 0
  /\ req = 0 <=> Outstanding = {}
  /\ req # 0 =>
       /\ Outstanding = {req}
       /\ curcmd[1] = req
       /\ curcmd[2] = (IF STOP_STARTED \in flags THEN "stop" ELSE "cmd")
       /\ CmdAt(St, curcmd[2]).present
       /\ CmdAt(St, curcmd[2]).mrq = req

\* the stop command of the second request is current
C26_Witness ==
  /\ nsub = 2 /\ req = 2 /\ doneCount[1] = 1
  /\ curcmd = <<2, "stop">> /\ STOP_STARTED \in flags
  /\ last.op = "intr"

(***************************************************************************)
(* Properties of the transfer accounting.                                  *)
(***************************************************************************)
\* the step the handler marked done last was that of a transfer of nonzero
\* length that ended with command-ready and without error
TransferFinished ==
  /\ hist.step.end = "ready"
  /\ FinishedCmd.error = "MMC_ERR_NONE"
  /\ IsRead(FinishedCmd) \/ IsWrite(FinishedCmd)
  /\ FinishedCmd.data.len > 0

\* C27 as stated: when a data command of nonzero length has finished
\* without error, data->xfer_len no longer holds the 0 assigned when the
\* command was started: it holds the length transferred.
C27_XferLenUpdated ==
  TransferFinished =>
     /\ FinishedCmd.data.xfer_len # 0
     /\ FinishedCmd.data.xfer_len = FinishedCmd.data.len

\* data->xfer_len is 0 from the start of a transfer on
XferLenStaysZero ==
  \A w \in {"cmd", "stop"} :
    LET c == CmdAt(St, w) IN
    (/\ IsRead(c) \/ IsWrite(c)
     /\ IF w = "cmd" THEN hist.cmdStarts = 1 ELSE hist.stopStarts = 1) =>
       c.data.xfer_len = 0

\* a 512-byte read has finished without error
FinishedReadZero ==
  /\ TransferFinished /\ IsRead(FinishedCmd)
  /\ hist.step.events = <<"ENDRX", "RXBUFF", "CMDRDY">>
  /\ FinishedCmd.data.len = 512 /\ FinishedCmd.data.xfer_len = 0

(***************************************************************************)
(* Properties of the stop command after a failed primary command.          *)
(***************************************************************************)
\* the last handler run ended the primary command's step with an error
PrimaryFailed ==
  /\ ErrIntr /\ last.cur[2] = "cmd"
  /\ rq.cmd.error \in ErrorOutcomes

\* C28: when the handler ends the primary command's step with an error and
\* the request has a stop command, that run starts the stop command and
\* does not complete the request before it; once the primary command's step
\* has ended, its error code and response are not written again, whatever
\* the stop command's outcome.
C28_StopAfterError ==
  /\ []((PrimaryFailed /\ rq.stop.present) =>
          /\ hist.stopStarts = 1 /\ STOP_STARTED \in flags
          /\ LastStart > 0 /\ log[LastStart][2] = "stop"
          /\ \A i \in 1..Len(log) : log[i][1] = "done" => i > LastStart
          /\ \/ req # 0 /\ curcmd = <<req, "stop">>
             \/ req = 0 /\ hist.syncFail = "stop")
  /\ [][hist.stepsDone >= 1 =>
          /\ rq'.cmd.error = rq.cmd.error
          /\ rq'.cmd.resp = rq.cmd.resp]_vars
  /\ []((req = 0 /\ hist.donePath = "async" /\ rq.stop.present) =>
          hist.stopStarts = 1)

\* the primary command timed out and the stop command then failed its CRC
C28_Witness ==
  /\ req = 0 /\ hist.stepsDone = 2 /\ hist.stopStarts = 1
  /\ rq.cmd.error = "MMC_ERR_TIMEOUT"
  /\ rq.stop.error = "MMC_ERR_BADCRC"
  /\ ErrIntr /\ last.cur[2] = "stop"

(***************************************************************************)
(* Properties of the completion sources.                                   *)
(***************************************************************************)
\* the status bits that report progress of a command without error
CompletionBits == {"CMDRDY", "ENDRX", "RXBUFF", "TXBUFE", "NOTBUSY"}

\* the last at91_mci_start_cmd completed the request from its
\* bus_dmamap_load failure branch
SyncCompleted ==
  /\ LastStart > 0
  /\ hist.syncFail = log[LastStart][2]
  /\ \E i \in (LastStart + 1)..Len(log) : log[i][1] = "done"

\* the command has data with neither direction flag
NoDirection(c) ==
  /\ c.data.present
  /\ c.data.flags \cap {"MMC_DATA_READ", "MMC_DATA_WRITE"} = {}

\* C29 as stated: whatever the data flags of the command, starting it
\* either writes the command register and leaves a non-error completion
\* source enabled, or completes the request synchronously; while a request
\* is outstanding a completion source is enabled, so that the request
\* completes once the controller raises the enabled bits.
C29_StartIssuesCommand ==
  /\ LastStart > 0 =>
       \/ SyncCompleted
       \/ StartWrote("MCI_CMDR") /\ imr \cap CompletionBits # {}
  /\ req # 0 => imr \cap CompletionBits # {}

\* the same for the commands without data or with a direction
StartIssuesDirected ==
  /\ (LastStart > 0 /\ ~NoDirection(StartedCmd)) =>
       \/ SyncCompleted
       \/ StartWrote("MCI_CMDR") /\ imr \cap CompletionBits # {}
  /\ (req # 0 /\ ~NoDirection(CmdAt(St, curcmd[2]))) =>
       Cardinality(imr \cap CompletionBits) = 1

\* a command with data of neither direction is outstanding: the command
\* register was not written and only the error sources are enabled
NeverIssued ==
  /\ req # 0 /\ NoDirection(CmdAt(St, curcmd[2]))
  /\ LastStart > 0 /\ ~StartWrote("MCI_CMDR") /\ StartWrote("MCI_ARGR")
  /\ imr = ErrorBits

\* C30: while no request is outstanding no interrupt source is enabled;
\* whenever a source is enabled, so that the handler can see a nonzero
\* masked status, the current command is non-null, and the handler has never
\* dereferenced a null current command; at most one of the non-error
\* completion sources is enabled at any time.
C30_NoNullCurrent ==
  /\ req = 0 => imr = {}
  /\ imr # {} => (curcmd # NullCmd /\ CmdAt(St, curcmd[2]).present)
  /\ ~panic
  /\ last.op = "intr" => last.cur # NullCmd
  /\ Cardinality(imr \cap CompletionBits) <= 1

\* the handler has run for the read of the second request and left
\* receive-buffer-full as the one completion source
C30_Witness ==
  /\ last.op = "intr" /\ last.cur = <<2, "cmd">>
  /\ nsub = 2 /\ req = 2
  /\ imr = ErrorBits \cup {"RXBUFF"}

(***************************************************************************)
(* Properties of repeated bus-timing calls.                                *)
(***************************************************************************)
\* update_ios runs a second time right after a run on a nonzero requested
\* clock: no CLOCK write came between, the 30mhz flag is as it was
SecondUpdate ==
  /\ last.op = "update_ios" /\ last.val # 0
  /\ last'.op = "update_ios" /\ last'.use30 = last.use30

\* C31: update_ios is idempotent: for every nonzero requested clock and
\* master clock, a second call without a CLOCK write in between (its request
\* is the clock the first call stored back) programs the same divider and
\* leaves the same stored clock as the first call.
C31_Idempotent ==
  [][SecondUpdate =>
       /\ last'.val = host.ios.clock
       /\ last'.clkdiv = last.clkdiv
       /\ regs'.MCI_MR.clkdiv = regs.MCI_MR.clkdiv
       /\ host'.ios.clock = host.ios.clock]_vars

\* where the second call does repeat the first: the first request was an
\* exact divider slot of the master clock outside the overclock exception
IdempotentOnExactSlot ==
  [][(SecondUpdate /\ ~IosOverclock /\ master_clock % (last.val * 2) = 0) =>
       /\ last'.clkdiv = last.clkdiv
       /\ host'.ios.clock = host.ios.clock]_vars

\* the second call has moved to the next divider and a lower clock
ClockDrifted ==
  /\ last.op = "update_ios" /\ last.run = 2 /\ last.val # 0
  /\ last.val = AchievedClock(master_clock, last.clkdiv - 1)
  /\ host.ios.clock < last.val

(***************************************************************************)
(* Writes at and past the size of the bounce buffer.  bounce_buffer is the *)
(* last member of the softc, so bytes staged past BBSZ land outside it;    *)
(* what the driver does after that is undefined and is not followed.       *)
(***************************************************************************)
\* data->len of the writes submitted: the last word-sized length below the
\* size of the bounce buffer, the size itself, and the next two above it
BigLens == {BBSZ - 4, BBSZ, BBSZ + 4, BBSZ + 8}

\* the bytes held from sc->bounce_buffer on fit the array
BounceFits == Len(bounce) <= BBSZ

NextBig ==
  \/ \E n \in BigLens : \E dmaok \in BOOLEAN :
       BounceFits /\ Request(WriteRequest(n), dmaok)
  \/ \E sr \in GoodStatus, rspr \in RspRegs :
       BounceFits /\ Intr(sr, rspr, TRUE, FALSE)

SpecBig == InitBuf /\ [][NextBig]_vars

\* the "stage" and "dmamap_load" events of the handler that has just run
StageEvents == {i \in 1..Len(log) : log[i][1] = "stage"}
LoadEvents == {i \in 1..Len(log) : log[i][1] = "dmamap_load"}

\* C32: for every write command the sequencer accepts, the number of bytes
\* staged into the bounce buffer, and the DMA length loaded from it, never
\* exceed the buffer's fixed size of 512 bytes, whatever data length the
\* request carries.
C32_StagedWithinBuffer ==
  /\ \A i \in StageEvents : log[i][2] <= BBSZ /\ log[i][3] <= BBSZ
  /\ \A i \in LoadEvents : log[i][2] = "bounce_buffer" => log[i][3] <= BBSZ
  /\ BounceFits

\* what does hold: the bytes staged and the length loaded are those of the
\* request (12 for a short write under the erratum), with no upper limit
StagedIsRequested ==
  \A i \in StageEvents :
     /\ log[i][2] = rq.cmd.data.len \/ req = 0
     /\ log[i][3] >= log[i][2]
     /\ Len(bounce) >= 4 * (log[i][2] \div 4)

\* a write longer than the bounce buffer has been staged and handed to the
\* DMA engine
Overrun ==
  /\ StageEvents # {} /\ ~BounceFits
  /\ \E i \in LoadEvents : log[i][2] = "bounce_buffer" /\ log[i][3] > BBSZ
  /\ regs.PDC_TCR > BBSZ \div 4

(***************************************************************************)
(* The width of the divider: master clocks up to and past 512 * f_min,     *)
(* where the "real min freq", master_clock/512, meets the f_min the driver *)
(* advertises.                                                             *)
(***************************************************************************)
\* the largest master clock whose real minimum, master_clock/512, does not
\* exceed the advertised f_min
MaxMckForFmin == 512 * F_MIN

DivClocks == MasterClocks \cup {MaxMckForFmin, MaxMckForFmin + 1, 200000000}

InitDiv == \E mck \in DivClocks : Attached(mck, FALSE, FALSE)

SpecDiv == InitDiv /\ [][NextIos]_vars

\* update_ios runs on a requested clock between f_min and f_max
UpdateInRange ==
  /\ last'.op = "update_ios" /\ last' # last
  /\ host.f_min <= last'.val /\ last'.val <= host.f_max

\* the write of MCI_MR changed the CLKDIV field to d and nothing else
OnlyClkdivWritten(d) ==
  /\ d <= 255
  /\ regs'.MCI_MR = [regs.MCI_MR EXCEPT !.clkdiv = d]

\* C33: for every requested clock f with f_min (375000) <= f <= f_max and
\* every master clock M, the divider update_ios computes is at most 255, so
\* that writing it into the mode register changes only the 8-bit CLKDIV
\* field and leaves block length, PDC mode, power-save divider and the
\* read/write proof bits unchanged.
C33_DividerFits ==
  [][UpdateInRange => OnlyClkdivWritten(last'.clkdiv)]_vars

\* C33 as amended: the same for every master clock M up to 512 * f_min =
\* 192000000.
C33_DividerFitsUpTo ==
  [][(UpdateInRange /\ master_clock <= MaxMckForFmin) =>
        OnlyClkdivWritten(last'.clkdiv)]_vars

\* the divider at its largest: f_min requested under the largest master
\* clock covered
C33_Witness ==
  /\ last.op = "update_ios" /\ last.val = F_MIN
  /\ master_clock = MaxMckForFmin
  /\ last.clkdiv = 255 /\ regs.MCI_MR.clkdiv = 255
  /\ regs.MCI_MR.pwsdiv = 3 /\ regs.MCI_MR.pdcmode
  /\ host.ios.clock = F_MIN

\* one hertz above it the divider of f_min is 256 and CLKDIV reads 0
DividerTooWide ==
  /\ last.op = "update_ios" /\ last.val = F_MIN
  /\ master_clock = MaxMckForFmin + 1
  /\ last.clkdiv = 256 /\ regs.MCI_MR.clkdiv = 0
====
